---- MODULE Spec2Model ----
(***************************************************************************)
(* Model of Magnum::Vk instance negotiation (src/Magnum/Vk/Instance.cpp,   *)
(* Instance.h): the InstanceCreateInfo request builder and the Instance    *)
(* handle wrapper.                                                         *)
(*                                                                         *)
(* Strings are sequences of small naturals ("characters"); the order on    *)
(* them is the lexicographic order Containers::StringView compares with.   *)
(***************************************************************************)
EXTENDS Integers, Sequences, FiniteSets, TLC

VARIABLES
    live,          \* the Instance objects that are constructed and not yet destroyed
    inst,          \* Instance objects: _handle, _flags, _extensionStatus, _functionPointers
    native,        \* driver side: state of every VkInstance handle
    destroyCalls,  \* driver side: number of DestroyInstance calls per handle
    owner,         \* who answers for a handle: an Instance or external code
    lastOp,        \* the last operation and its arguments
    info,          \* the InstanceCreateInfo being built
    mem,           \* caller-side string buffers
    added,         \* what the add calls were given, in call order
    driver,        \* what the Vulkan loader reports: version, layers, extensions
    properties,    \* an InstanceProperties: _version, _layers
    extensionProperties, \* an InstanceExtensionProperties: _extensions, _uniqueExtensionCount
    queries,       \* loader queries made and values returned since construction
    lastCall,      \* the last properties call: function, arguments, result, output
    flextVkInstance, \* the global instance-level function pointers
    threads        \* threads calling into the one InstanceProperties: where each is

vars == <<live, inst, native, destroyCalls, owner, lastOp, info, mem, added,
          driver, properties, extensionProperties, queries, lastCall,
          flextVkInstance, threads>>
propVars == <<driver, properties, extensionProperties, queries, lastCall>>
instVars == <<live, inst, native, destroyCalls, owner>>
reqVars == <<info, mem, added>>

(***************************************************************************)
(* Bounds                                                                  *)
(***************************************************************************)
MaxHandles == 2
MaxBuilderCalls == 2
MaxCounted == 2
MaxId == 6

(***************************************************************************)
(* Strings                                                                 *)
(***************************************************************************)
Min(a, b) == IF a < b THEN a ELSE b

\* Containers::StringView operator<: bytewise, a proper prefix sorts first
StrLess(a, b) ==
    \/ \E i \in 1..Min(Len(a), Len(b)) :
          /\ \A j \in 1..(i - 1) : a[j] = b[j]
          /\ a[i] < b[i]
    \/ /\ Len(a) < Len(b)
       /\ \A j \in 1..Len(a) : a[j] = b[j]

\* Names used below. First character: 1 for "VK_AMD_", 2 for "VK_EXT_",
\* 3 for "VK_KHR_", 4 for "VK_LAYER_"; the rest orders the names as the real
\* strings are ordered.
EXT_debug_report == <<2, 1>>
EXT_debug_utils == <<2, 2>>
EXT_validation_features == <<2, 3>>
KHR_device_group_creation == <<3, 1>>
KHR_external_fence_capabilities == <<3, 2>>
KHR_external_memory_capabilities == <<3, 3>>
KHR_external_semaphore_capabilities == <<3, 4>>
KHR_get_physical_device_properties2 == <<3, 5>>
KHR_surface == <<3, 6>>                  \* not in the catalog, sorts last
AMD_unknown == <<1, 1>>                  \* not in the catalog, sorts first
LAYER_KHRONOS_validation == <<4, 1>>
LAYER_KHRONOS_validation3 == <<4, 1, 3>>
LAYER_this_doesnt_exist == <<4, 2>>

(***************************************************************************)
(* std::lower_bound / std::binary_search / std::sort                       *)
(***************************************************************************)
RECURSIVE LowerBoundFrom(_, _, _, _)
LowerBoundFrom(names, x, first, count) ==
    IF count <= 0 THEN first
    ELSE LET step == count \div 2
             it == first + step
         IN IF StrLess(names[it], x)
            THEN LowerBoundFrom(names, x, it + 1, count - (step + 1))
            ELSE LowerBoundFrom(names, x, first, step)

\* position in 1..Len(names)+1; Len(names)+1 is end()
LowerBound(names, x) == LowerBoundFrom(names, x, 1, Len(names))

BinarySearch(names, x) ==
    LET found == LowerBound(names, x)
    IN found <= Len(names) /\ ~StrLess(x, names[found])

RECURSIVE InsertSorted(_, _)
InsertSorted(s, x) ==
    IF s = <<>> THEN <<x>>
    ELSE IF StrLess(x, s[1]) THEN <<x>> \o s
    ELSE <<s[1]>> \o InsertSorted(Tail(s), x)

RECURSIVE Sort(_)
Sort(s) == IF s = <<>> THEN <<>> ELSE InsertSorted(Sort(Tail(s)), s[1])

Range(s) == {s[i] : i \in 1..Len(s)}

(***************************************************************************)
(* The extension catalog                                                   *)
(***************************************************************************)
\* VK_MAKE_VERSION: major << 22 | minor << 12 | patch
MakeVersion(major, minor, patch) == major * 4194304 + minor * 4096 + patch
Vk10 == MakeVersion(1, 0, 0)
Vk11 == MakeVersion(1, 1, 0)
Vk12 == MakeVersion(1, 2, 0)
\* Version::None, the key of the extensions adopted by no core version: a
\* value above every packed version (kept within 31 bits here, only its
\* order against the packed versions is used)
VersionNone == 2147483647
VersionKeys == {VersionNone, Vk10, Vk11, Vk12}

InstanceExtensionCount == 16

\* E::InstanceIndex of the compile-time extension types: distinct positions
\* below InstanceExtensionCount
InstanceIndex(name) ==
    CASE name = EXT_debug_report -> 0
      [] name = EXT_debug_utils -> 1
      [] name = EXT_validation_features -> 2
      [] name = KHR_device_group_creation -> 10
      [] name = KHR_external_fence_capabilities -> 11
      [] name = KHR_external_memory_capabilities -> 12
      [] name = KHR_external_semaphore_capabilities -> 13
      [] name = KHR_get_physical_device_properties2 -> 14

\* E::requiredVersion() and E::coreVersion() of the compile-time extension
\* types: every one is usable from Vulkan 1.0 on, the KHR ones are core in 1.1
RequiredVersion(name) == Vk10
CoreVersion(name) == IF name[1] = 3 THEN Vk11 ELSE VersionNone

\* InstanceExtension(const E&)
InstanceExtension(name) ==
    [string |-> name, index |-> InstanceIndex(name),
     requiredVersion |-> RequiredVersion(name), coreVersion |-> CoreVersion(name)]

InstanceExtensions == <<
    InstanceExtension(EXT_debug_report),
    InstanceExtension(EXT_debug_utils),
    InstanceExtension(EXT_validation_features) >>

\* a 1.1 list that names an extension twice
InstanceExtensions11_Repeated == <<
    InstanceExtension(KHR_device_group_creation),
    InstanceExtension(KHR_device_group_creation),
    InstanceExtension(KHR_external_memory_capabilities),
    InstanceExtension(KHR_external_semaphore_capabilities),
    InstanceExtension(KHR_get_physical_device_properties2) >>

InstanceExtensions11 == <<
    InstanceExtension(KHR_device_group_creation),
    InstanceExtension(KHR_external_fence_capabilities),
    InstanceExtension(KHR_external_memory_capabilities),
    InstanceExtension(KHR_external_semaphore_capabilities),
    InstanceExtension(KHR_get_physical_device_properties2) >>

\* a switch that hands the 1.1 list out for Version::Vk12 as well
InstanceExtension_extensions_Fallthrough(version) ==
    CASE version = VersionNone -> InstanceExtensions
      [] version = Vk10 -> <<>>
      [] version = Vk11 -> InstanceExtensions11
      [] version = Vk12 -> InstanceExtensions11

\* InstanceExtension::extensions(Version)
InstanceExtension_extensions(version) ==
    CASE version = VersionNone -> InstanceExtensions
      [] version = Vk10 -> <<>>
      [] version = Vk11 -> InstanceExtensions11
      [] version = Vk12 -> <<>>

KnownLists == <<InstanceExtensions, InstanceExtensions11>>

Catalog == Range(InstanceExtensions) \cup Range(InstanceExtensions11)

Strings(list) == [i \in 1..Len(list) |-> list[i].string]

(***************************************************************************)
(* Memory: addresses and the strings behind them                           *)
(***************************************************************************)
\* a string literal holding exactly `name`: global, immutable
Lit(name) == <<"lit", name>>
\* a caller-owned modifiable buffer (a local Containers::String)
Local == <<"local", <<1>>>>
\* the command line; views into it are neither global nor null-terminated
Argv == <<"argv", <<0>>>>
ArgvBytes == <<9, 9>>
Scribbled == <<8>>
LocalContents == {KHR_external_memory_capabilities, Scribbled}

NullPtr == [kind |-> "null"]
CallerPtr(addr) == [kind |-> "caller", data |-> addr]
OwnedPtr(k) == [kind |-> "owned", idx |-> k]
AppNamePtr == [kind |-> "appname"]

\* the null-terminated string found at a caller address
Bytes(m, addr) ==
    IF addr[1] = "lit" THEN addr[2]
    ELSE IF addr[1] = "local" THEN m
    ELSE ArgvBytes

\* Containers::StringView: where it points, what it spans, its flags
View(addr, str, flags) == [data |-> addr, str |-> str, flags |-> flags]
LitView(name) == View(Lit(name), name, {"Global", "NullTerminated"})
\* "..."_s.except(1): global, no longer null-terminated
LitExcept1(name) == View(Lit(name), SubSeq(name, 1, Len(name) - 1), {"Global"})
\* a view on the local buffer
LocalView(m) == View(Local, m, {"NullTerminated"})
ArgvView(name) == View(Argv, name, {})

(***************************************************************************)
(* InstanceCreateInfo                                                      *)
(***************************************************************************)
NoState == [set |-> FALSE]
NullData == [arr |-> "null", gen |-> 0]
EmptyArray(name) == [arr |-> name, gen |-> 0, cap |-> 0, items |-> <<>>]

\* Containers::Array::data(): null for a default-constructed array
Data(a) == IF a.cap = 0 /\ a.gen = 0 THEN NullData ELSE [arr |-> a.arr, gen |-> a.gen]

\* Containers::arrayReserve(): a new allocation when the capacity is too small
arrayReserve(a, n) ==
    IF a.cap >= n THEN a ELSE [a EXCEPT !.gen = @ + 1, !.cap = n]

\* Containers::arrayAppend(): in place when there is room
arrayAppend(a, x) ==
    IF Len(a.items) < a.cap
    THEN [a EXCEPT !.items = Append(@, x)]
    ELSE [a EXCEPT !.gen = @ + 1, !.cap = 2 * a.cap + 1, !.items = Append(@, x)]

\* InstanceCreateInfo::State, default-constructed
EmplacedState == [
    set |-> TRUE,
    applicationName |-> [owned |-> FALSE, ptr |-> NullPtr, bytes |-> <<>>],
    ownedStrings |-> <<>>,
    layers |-> EmptyArray("layers"),
    extensions |-> EmptyArray("extensions"),
    disabledLayers |-> <<>>,
    disabledExtensions |-> <<>>,
    verboseLog |-> FALSE ]

\* if(!_state) _state.emplace();
Emplace(req) == IF req.state.set THEN req ELSE [req EXCEPT !.state = EmplacedState]

\* the string a const char* stored in the request reads as
CStr(req, m, p) ==
    IF p.kind = "caller" THEN Bytes(m, p.data)
    ELSE IF p.kind = "owned" THEN req.state.ownedStrings[p.idx]
    ELSE IF p.kind = "appname" THEN req.state.applicationName.bytes
    ELSE <<>>

\* Containers::String::nullTerminatedGlobalView()
nullTerminatedGlobalView(v) ==
    IF {"NullTerminated", "Global"} \subseteq v.flags
    THEN [owned |-> FALSE, ptr |-> CallerPtr(v.data), bytes |-> <<>>]
    ELSE [owned |-> TRUE, ptr |-> AppNamePtr, bytes |-> v.str]

\* a setApplicationInfo() that leaves the stored name alone for an empty view
setApplicationInfo_KeepsName(req, name, version) ==
    LET named == IF name.str # <<>>
                 THEN LET r == Emplace(req)
                          s == nullTerminatedGlobalView(name)
                      IN [r EXCEPT !.state.applicationName = s,
                                   !.pApplicationName = s.ptr]
                 ELSE req
    IN [named EXCEPT !.applicationVersion = version]

setApplicationInfo(req, name, version) ==
    LET named == IF name.str # <<>>
                 THEN LET r == Emplace(req)
                          s == nullTerminatedGlobalView(name)
                      IN [r EXCEPT !.state.applicationName = s,
                                   !.pApplicationName = s.ptr]
                 ELSE [(IF req.state.set
                        THEN [req EXCEPT !.state.applicationName =
                                  [owned |-> FALSE, ptr |-> NullPtr, bytes |-> <<>>]]
                        ELSE req)
                       EXCEPT !.pApplicationName = NullPtr]
    IN [named EXCEPT !.applicationVersion = version]

\* a loop that never copies: the caller's pointer is stored as it is
RECURSIVE AppendStrings_NoCopy(_, _, _, _)
AppendStrings_NoCopy(owned, array, disabled, views) ==
    IF views = <<>> THEN [ownedStrings |-> owned, array |-> array]
    ELSE IF BinarySearch(disabled, Head(views).str)
    THEN AppendStrings_NoCopy(owned, array, disabled, Tail(views))
    ELSE AppendStrings_NoCopy(owned, arrayAppend(array, CallerPtr(Head(views).data)),
                              disabled, Tail(views))

\* a loop that skips a string whose pointer is stored already
RECURSIVE AppendStrings_Dedup(_, _, _, _)
AppendStrings_Dedup(owned, array, disabled, views) ==
    IF views = <<>> THEN [ownedStrings |-> owned, array |-> array]
    ELSE LET v == Head(views)
         IN IF BinarySearch(disabled, v.str) \/ CallerPtr(v.data) \in Range(array.items)
            THEN AppendStrings_Dedup(owned, array, disabled, Tail(views))
            ELSE IF ~({"NullTerminated", "Global"} \subseteq v.flags)
            THEN AppendStrings_Dedup(Append(owned, v.str),
                                     arrayAppend(array, OwnedPtr(Len(owned) + 1)),
                                     disabled, Tail(views))
            ELSE AppendStrings_Dedup(owned, arrayAppend(array, CallerPtr(v.data)),
                                     disabled, Tail(views))

\* the loop of addEnabledLayers() / addEnabledExtensions(): filter, copy, append
RECURSIVE AppendStrings(_, _, _, _)
AppendStrings(owned, array, disabled, views) ==
    IF views = <<>> THEN [ownedStrings |-> owned, array |-> array]
    ELSE LET v == Head(views)
         IN IF BinarySearch(disabled, v.str)
            THEN AppendStrings(owned, array, disabled, Tail(views))
            ELSE IF ~({"NullTerminated", "Global"} \subseteq v.flags)
            THEN AppendStrings(Append(owned, v.str),
                               arrayAppend(array, OwnedPtr(Len(owned) + 1)),
                               disabled, Tail(views))
            ELSE AppendStrings(owned, arrayAppend(array, CallerPtr(v.data)),
                               disabled, Tail(views))

\* addEnabledLayers() without the final update of the pointer
addEnabledLayers_NoReroute(req, layers) ==
    IF layers = <<>> THEN req
    ELSE LET r == Emplace(req)
             res == AppendStrings(r.state.ownedStrings,
                        arrayReserve(r.state.layers,
                                     Len(r.state.layers.items) + Len(layers)),
                        r.state.disabledLayers, layers)
         IN [r EXCEPT !.state.ownedStrings = res.ownedStrings,
                      !.state.layers = res.array,
                      !.enabledLayerCount = Len(res.array.items)]

addEnabledLayers(req, layers) ==
    IF layers = <<>> THEN req
    ELSE LET r == Emplace(req)
             res == AppendStrings(r.state.ownedStrings,
                        arrayReserve(r.state.layers,
                                     Len(r.state.layers.items) + Len(layers)),
                        r.state.disabledLayers, layers)
         IN [r EXCEPT !.state.ownedStrings = res.ownedStrings,
                      !.state.layers = res.array,
                      !.enabledLayerCount = Len(res.array.items),
                      !.ppEnabledLayerNames = Data(res.array)]

\* addEnabledExtensions() that re-routes the pointer to the layer array too
addEnabledExtensions_ReroutesLayers(req, extensions) ==
    IF extensions = <<>> THEN req
    ELSE LET r == Emplace(req)
             res == AppendStrings(r.state.ownedStrings,
                        arrayReserve(r.state.extensions,
                                     Len(r.state.extensions.items) + Len(extensions)),
                        r.state.disabledExtensions, extensions)
         IN [r EXCEPT !.state.ownedStrings = res.ownedStrings,
                      !.state.extensions = res.array,
                      !.enabledExtensionCount = Len(res.array.items),
                      !.ppEnabledExtensionNames = Data(res.array),
                      !.ppEnabledLayerNames = Data(res.array)]

addEnabledExtensions(req, extensions) ==
    IF extensions = <<>> THEN req
    ELSE LET r == Emplace(req)
             res == AppendStrings(r.state.ownedStrings,
                        arrayReserve(r.state.extensions,
                                     Len(r.state.extensions.items) + Len(extensions)),
                        r.state.disabledExtensions, extensions)
         IN [r EXCEPT !.state.ownedStrings = res.ownedStrings,
                      !.state.extensions = res.array,
                      !.enabledExtensionCount = Len(res.array.items),
                      !.ppEnabledExtensionNames = Data(res.array)]

\* the InstanceExtension overload: the catalog strings are global literals
RECURSIVE AppendKnown(_, _, _)
AppendKnown(array, disabled, exts) ==
    IF exts = <<>> THEN array
    ELSE IF BinarySearch(disabled, Head(exts).string)
    THEN AppendKnown(array, disabled, Tail(exts))
    ELSE AppendKnown(arrayAppend(array, CallerPtr(Lit(Head(exts).string))),
                     disabled, Tail(exts))

addEnabledInstanceExtensions(req, extensions) ==
    IF extensions = <<>> THEN req
    ELSE LET r == Emplace(req)
             arr == AppendKnown(
                        arrayReserve(r.state.extensions,
                                     Len(r.state.extensions.items) + Len(extensions)),
                        r.state.disabledExtensions, extensions)
         IN [r EXCEPT !.state.extensions = arr,
                      !.enabledExtensionCount = Len(arr.items),
                      !.ppEnabledExtensionNames = Data(arr)]

\* a blacklist kept in command-line order
SortedBlacklist_Unsorted(parts) == parts

\* the sorted blacklist kept by the constructor
SortedBlacklist(parts) == Sort(parts)

\* InstanceCreateInfo(argc, argv, ...): args is the parsed command line, each
\* list option already split into its parts
InstanceCreateInfoArgs(args) ==
    LET zero == [enabledLayerCount |-> 0, ppEnabledLayerNames |-> NullData,
                 enabledExtensionCount |-> 0, ppEnabledExtensionNames |-> NullData,
                 pApplicationName |-> NullPtr, applicationVersion |-> 0,
                 state |-> NoState]
        r1 == IF args.log = "verbose"
              THEN [Emplace(zero) EXCEPT !.state.verboseLog = TRUE] ELSE zero
        r2 == IF args.disableLayers # <<>>
              THEN [Emplace(r1) EXCEPT !.state.disabledLayers =
                        SortedBlacklist(args.disableLayers)]
              ELSE r1
        r3 == IF args.disableExtensions # <<>>
              THEN [Emplace(r2) EXCEPT !.state.disabledExtensions =
                        SortedBlacklist(args.disableExtensions)]
              ELSE r2
        r4 == addEnabledLayers(r3, [i \in 1..Len(args.enableLayers) |->
                                        ArgvView(args.enableLayers[i])])
    IN addEnabledExtensions(r4, [i \in 1..Len(args.enableExtensions) |->
                                     ArgvView(args.enableExtensions[i])])

\* an array of names owned by the caller, and a VkInstanceCreateInfo filled
\* by the caller that lists the given layers and extensions
CallerArray(names) ==
    IF names = <<>> THEN NullData
    ELSE [arr |-> "caller", gen |-> 0,
          items |-> [i \in 1..Len(names) |-> CallerPtr(Lit(names[i]))]]
VkInstanceCreateInfo(layerNames, extensionNames) ==
    [enabledLayerCount |-> Len(layerNames),
     ppEnabledLayerNames |-> CallerArray(layerNames),
     enabledExtensionCount |-> Len(extensionNames),
     ppEnabledExtensionNames |-> CallerArray(extensionNames),
     pApplicationName |-> NullPtr, applicationVersion |-> 0]

\* InstanceCreateInfo(const VkInstanceCreateInfo&): _info{info}, no State
InstanceCreateInfoVk(vkInfo) ==
    [enabledLayerCount |-> vkInfo.enabledLayerCount,
     ppEnabledLayerNames |-> vkInfo.ppEnabledLayerNames,
     enabledExtensionCount |-> vkInfo.enabledExtensionCount,
     ppEnabledExtensionNames |-> vkInfo.ppEnabledExtensionNames,
     pApplicationName |-> vkInfo.pApplicationName,
     applicationVersion |-> vkInfo.applicationVersion,
     state |-> NoState]

\* what reading through a stale or null pointer stands for
Dangling == << <<0, 0>> >>

\* what a reader of VkInstanceCreateInfo sees: count strings behind the pointer
ReadNames(req, m, pp, count, array) ==
    IF count = 0 THEN <<>>
    ELSE IF pp.arr = "caller" /\ count <= Len(pp.items)
    THEN [i \in 1..count |-> CStr(req, m, pp.items[i])]
    ELSE IF req.state.set /\ pp = Data(array) /\ count <= Len(array.items)
    THEN [i \in 1..count |-> CStr(req, m, array.items[i])]
    ELSE Dangling

EnabledLayerNames(req, m) ==
    ReadNames(req, m, req.ppEnabledLayerNames, req.enabledLayerCount,
              IF req.state.set THEN req.state.layers ELSE EmptyArray("layers"))

EnabledExtensionNames(req, m) ==
    ReadNames(req, m, req.ppEnabledExtensionNames, req.enabledExtensionCount,
              IF req.state.set THEN req.state.extensions ELSE EmptyArray("extensions"))

(***************************************************************************)
(* Instance                                                                *)
(***************************************************************************)
Objs == {"a", "b"}
Handles == 1..MaxHandles
DestroyOnDestruction == "DestroyOnDestruction"
HandleFlagSets == {{}, {DestroyOnDestruction}}

\* Instance(NoCreateT): null handle, no flags, no extension bit, null
\* function pointers
NoCreate == [handle |-> 0, flags |-> {}, extensionStatus |-> {}, functionPointers |-> 0]

\* What a read of *end() of a catalog list can yield. The element is outside
\* the array, so the build decides: bytes that compare unequal to every name,
\* or bytes that compare equal to the searched name and carry some index.
PastTheEnd ==
    {[string |-> <<>>, index |-> 0],
     [string |-> KHR_get_physical_device_properties2, index |-> 0],
     [string |-> KHR_surface, index |-> 0]}
\* whether the lookup of some name in list l ends at end()
ReadsPastTheEndOf(l, enabledExtensions) ==
    \E i \in 1..Len(enabledExtensions) :
        LowerBound(Strings(KnownLists[l]), enabledExtensions[i]) > Len(KnownLists[l])
\* one outcome per list that is read past its end
PastTheEndChoices(enabledExtensions) ==
    {past \in [1..Len(KnownLists) -> PastTheEnd] :
        \A l \in 1..Len(KnownLists) :
            ~ReadsPastTheEndOf(l, enabledExtensions) => past[l] = [string |-> <<>>, index |-> 0]}

\* the body of the inner loop of Instance::initialize() for one list
MarkKnown(status, extension, knownExtensions, pastEnd) ==
    LET found == LowerBound(Strings(knownExtensions), extension)
        elem == IF found > Len(knownExtensions) THEN pastEnd
                ELSE knownExtensions[found]
    IN IF elem.string # extension THEN status ELSE status \cup {elem.index}

RECURSIVE MarkAllKnown(_, _, _)
MarkAllKnown(status, enabledExtensions, past) ==
    IF enabledExtensions = <<>> THEN status
    ELSE MarkAllKnown(
            MarkKnown(MarkKnown(status, Head(enabledExtensions), KnownLists[1], past[1]),
                      Head(enabledExtensions), KnownLists[2], past[2]),
            Tail(enabledExtensions), past)

\* an initialize() that marks the extensions and loads no function pointer
initialize_NoPointers(self, enabledExtensions, past) ==
    [self EXCEPT !.extensionStatus = MarkAllKnown(@, enabledExtensions, past)]

\* Instance::initialize(): load the function pointers for _handle, mark the
\* known extensions
initialize(self, enabledExtensions, past) ==
    [self EXCEPT !.functionPointers = self.handle,
                 !.extensionStatus = MarkAllKnown(@, enabledExtensions, past)]

\* whether initialize() evaluates found->string() with found == end()
ReadsPastTheEnd(enabledExtensions) ==
    \E l \in 1..Len(KnownLists) : ReadsPastTheEndOf(l, enabledExtensions)

\* isExtensionEnabled(const InstanceExtension&)
isExtensionEnabled(self, known) == known.index \in self.extensionStatus

\* a move constructor that leaves the handle in the moved-from object
MoveConstruct_KeepsHandle(other) ==
    [self |-> [handle |-> other.handle, flags |-> other.flags,
               extensionStatus |-> {}, functionPointers |-> other.functionPointers],
     other |-> other]

\* Instance(Instance&&): the new object and what is left of the other
MoveConstruct(other) ==
    [self |-> [handle |-> other.handle, flags |-> other.flags,
               extensionStatus |-> {}, functionPointers |-> other.functionPointers],
     other |-> [other EXCEPT !.handle = 0, !.functionPointers = 0]]

\* a move assignment that forgets to swap the flags
MoveAssign_FlagsStay(self, other) ==
    [self |-> [self EXCEPT !.handle = other.handle,
                           !.functionPointers = other.functionPointers],
     other |-> [other EXCEPT !.handle = self.handle,
                             !.functionPointers = self.functionPointers]]

\* operator=(Instance&&): three swaps
MoveAssign(self, other) ==
    [self |-> [self EXCEPT !.handle = other.handle, !.flags = other.flags,
                           !.functionPointers = other.functionPointers],
     other |-> [other EXCEPT !.handle = self.handle, !.flags = self.flags,
                             !.functionPointers = self.functionPointers]]

\* a release() that hands the handle out and keeps it
release_KeepsHandle(self) == [handle |-> self.handle, self |-> self]

\* release(): the handle returned and the object afterwards
release(self) == [handle |-> self.handle, self |-> [self EXCEPT !.handle = 0]]

\* a populateGlobalFunctionPointers() that clears the global pointers
populateGlobalFunctionPointers_Null(self) == 0

\* populateGlobalFunctionPointers(): flextVkInstance = _functionPointers
populateGlobalFunctionPointers(self) == self.functionPointers

\* a destructor that does not look at the flags
DestructorDestroys_IgnoresFlags(self) == self.handle

\* ~Instance(): the handle passed to DestroyInstance, 0 when it is not called
DestructorDestroys(self) ==
    IF self.handle # 0 /\ DestroyOnDestruction \in self.flags THEN self.handle ELSE 0

\* Instance::wrap(): `elided` is whether the build constructs the returned
\* object in place; otherwise it is move-constructed from the local `out`,
\* which is then destroyed
wrap(handle, enabledExtensions, flags, past, elided) ==
    LET out == initialize([NoCreate EXCEPT !.handle = handle, !.flags = flags],
                          enabledExtensions, past)
        moved == MoveConstruct(out)
    IN IF elided THEN [result |-> out, destroyed |-> 0]
       ELSE [result |-> moved.self, destroyed |-> DestructorDestroys(moved.other)]

\* Debug{} << "Enabled instance layers:" and Debug{} << "   " << name: Debug
\* separates the two values of an entry by one more space
HeaderLine(what) == <<"Enabled instance", what>>
EntryLine(name) == <<"   ", " ", name>>
Entries(names) == [i \in 1..Len(names) |-> EntryLine(names[i])]

\* a log that prints the header of a category whatever its count
ConstructLog_AlwaysHeaders(req, m) ==
    IF req.state.set /\ req.state.verboseLog
    THEN <<HeaderLine("layers:")>> \o Entries(EnabledLayerNames(req, m))
         \o <<HeaderLine("extensions:")>> \o Entries(EnabledExtensionNames(req, m))
    ELSE <<>>

\* what Instance(const InstanceCreateInfo&) prints
ConstructLog(req, m) ==
    IF req.state.set /\ req.state.verboseLog
    THEN (IF req.enabledLayerCount # 0
          THEN <<HeaderLine("layers:")>> \o Entries(EnabledLayerNames(req, m))
          ELSE <<>>)
         \o (IF req.enabledExtensionCount # 0
             THEN <<HeaderLine("extensions:")>> \o Entries(EnabledExtensionNames(req, m))
             ELSE <<>>)
    ELSE <<>>

\* a constructor that prints once vkCreateInstance succeeded
Printed_OnSuccess(req, m, result) ==
    IF result = "Success" THEN ConstructLog(req, m) ELSE <<>>

\* what Instance(const InstanceCreateInfo&) has printed when vkCreateInstance
\* returns `result`: the printing comes first
Printed(req, m, result) == ConstructLog(req, m)

\* a constructor that takes the extension list out of the request
RequestAfterConstruct_Consumed(req) ==
    [req EXCEPT !.enabledExtensionCount = 0, !.ppEnabledExtensionNames = NullData]

\* the request after Instance(const InstanceCreateInfo& info)
RequestAfterConstruct(req) == req

\* Instance(const InstanceCreateInfo&) once vkCreateInstance returned `handle`
Construct(req, m, handle, past) ==
    initialize([NoCreate EXCEPT !.handle = handle, !.flags = {DestroyOnDestruction}],
               EnabledExtensionNames(req, m), past)

(***************************************************************************)
(* Inputs                                                                  *)
(***************************************************************************)
NoArgs == [log |-> "", disableLayers |-> <<>>, disableExtensions |-> <<>>,
           enableLayers |-> <<>>, enableExtensions |-> <<>>]

\* command lines of the request specification
ArgSets == {
    NoArgs,
    [NoArgs EXCEPT !.log = "verbose",
                   !.disableLayers = <<LAYER_KHRONOS_validation>>,
                   !.disableExtensions = <<EXT_validation_features>>],
    [NoArgs EXCEPT !.disableLayers = <<LAYER_this_doesnt_exist, LAYER_KHRONOS_validation>>,
                   !.disableExtensions = <<KHR_surface, EXT_debug_report>>],
    [NoArgs EXCEPT !.log = "verbose",
                   !.enableLayers = <<LAYER_KHRONOS_validation>>,
                   !.enableExtensions = <<EXT_debug_report, EXT_validation_features>>],
    [NoArgs EXCEPT !.disableExtensions = <<EXT_debug_report>>,
                   !.enableLayers = <<LAYER_this_doesnt_exist, LAYER_this_doesnt_exist>>,
                   !.enableExtensions = <<EXT_debug_report, KHR_surface>>] }

\* command lines of the instance specification
InstArgs == {NoArgs, [NoArgs EXCEPT !.disableExtensions = <<EXT_debug_report>>]}
\* command lines with --magnum-log verbose
VerboseArgs == {
    [NoArgs EXCEPT !.log = "verbose", !.disableExtensions = <<EXT_debug_report>>,
                   !.enableLayers = <<LAYER_this_doesnt_exist, LAYER_KHRONOS_validation>>],
    [NoArgs EXCEPT !.log = "verbose", !.disableLayers = <<LAYER_KHRONOS_validation>>,
                   !.enableLayers = <<LAYER_KHRONOS_validation>>,
                   !.enableExtensions = <<EXT_validation_features>>] }

\* argument lists of addEnabledLayers(): literals, a literal cut short, the
\* caller's local buffer, the same name twice
LayerArgs(m) == {
    <<LitView(LAYER_KHRONOS_validation)>>,
    <<LitView(LAYER_this_doesnt_exist), LitView(LAYER_KHRONOS_validation)>>,
    <<LitView(LAYER_KHRONOS_validation), LitView(LAYER_KHRONOS_validation)>>,
    <<LitExcept1(LAYER_KHRONOS_validation3)>>,
    <<LocalView(m)>> }
\* argument lists of addEnabledExtensions(), string overload
ExtensionArgs(m) == {
    <<LitView(EXT_debug_report)>>,
    <<LitView(KHR_surface), LitView(EXT_debug_report)>>,
    <<LitView(EXT_validation_features), LitView(EXT_validation_features)>>,
    <<LocalView(m)>> }
\* argument lists of addEnabledExtensions(), InstanceExtension overload
KnownArgs == {
    <<InstanceExtensions[1], InstanceExtensions[3]>>,
    <<InstanceExtensions11[2]>>,
    <<InstanceExtensions11[3], InstanceExtensions11[5]>> }
EmptyView == View(<<"null", <<0>>>>, <<>>, {"Global"})
ApplicationNames(m) == {EmptyView, LitView(LAYER_KHRONOS_validation), LocalView(m)}
Versions == {0, 1}

\* extension name lists an Instance is created or wrapped with
InstanceNameLists == {
    <<>>,
    <<EXT_debug_report>>,
    <<KHR_get_physical_device_properties2>>,
    <<KHR_surface>>,
    <<EXT_debug_report, KHR_get_physical_device_properties2>>,
    <<AMD_unknown, EXT_debug_report>> }

\* the requests an Instance is constructed from: a command line and the
\* extensions added by the application
ConstructInputs ==
    ({NoArgs} \X InstanceNameLists)
        \cup ((InstArgs \ {NoArgs})
                 \X {<<EXT_debug_report>>, <<EXT_debug_report, KHR_get_physical_device_properties2>>})
        \cup (VerboseArgs \X {<<EXT_debug_report>>})
        \cup {<<[NoArgs EXCEPT !.enableLayers = <<LAYER_KHRONOS_validation>>],
                <<EXT_debug_report>>>>}

(***************************************************************************)
(* Bookkeeping that is not program state                                   *)
(***************************************************************************)
\* the last operation: its name, the objects it was applied to (for a move, a
\* is the source and b the target), the extension names, handle flags and
\* handle it was given or returned, and whether it read past a catalog list
Op(op, a, b) ==
    [op |-> op, a |-> a, b |-> b, names |-> <<>>, flags |-> {}, h |-> 0, oob |-> FALSE,
     args |-> NoArgs, given |-> <<>>, out |-> <<>>,
     layers |-> <<>>, past |-> <<>>, request |-> <<>>, result |-> "Success"]

\* the candidates of one call that are not on the raw blacklist
Kept(views, blacklist) == SelectSeq(views, LAMBDA v : v.str \notin Range(blacklist))

ArgvViews(names) == [i \in 1..Len(names) |-> ArgvView(names[i])]

AddedByArgs(args) ==
    [args |-> args, calls |-> 0,
     layers |-> Kept(ArgvViews(args.enableLayers), args.disableLayers),
     extensions |-> Kept(ArgvViews(args.enableExtensions), args.disableExtensions),
     proposedLayers |-> Range(args.enableLayers),
     proposedExtensions |-> Range(args.enableExtensions),
     layerCalls |-> IF args.enableLayers = <<>> THEN 0 ELSE 1,
     extensionCalls |-> IF args.enableExtensions = <<>> THEN 0 ELSE 1,
     applicationName |-> EmptyView,
     previousApplicationName |-> EmptyView,
     applicationVersion |-> 0]

(***************************************************************************)
(* Driver                                                                  *)
(***************************************************************************)
FreshHandles == {h \in Handles : native[h] = "none" /\ \A g \in Handles : g < h => native[g] # "none"}

\* vkDestroyInstance(handle); handle 0 stands for "not called"
DriverDestroy(handle) ==
    IF handle = 0 THEN UNCHANGED <<native, destroyCalls>>
    ELSE /\ native' = [native EXCEPT ![handle] = "destroyed"]
         /\ destroyCalls' = [destroyCalls EXCEPT ![handle] = Min(@ + 1, 2)]

Held(h) == \E o \in live : inst[o].handle = h

(***************************************************************************)
(* Instance actions                                                        *)
(***************************************************************************)
\* Instance o{info}
ConstructInstanceFrom(o, inputs) ==
    /\ o \notin live
    /\ \E h \in FreshHandles, input \in inputs :
          LET args == input[1]
              names == input[2]
              req == addEnabledExtensions(InstanceCreateInfoArgs(args),
                         [i \in 1..Len(names) |-> LitView(names[i])])
              enabled == EnabledExtensionNames(req, mem)
          IN /\ \E past \in PastTheEndChoices(enabled) :
                    inst' = [inst EXCEPT ![o] = Construct(req, mem, h, past)]
             /\ native' = [native EXCEPT ![h] = "alive"]
             /\ owner' = [owner EXCEPT ![h] = "instance"]
             /\ lastOp' = [Op("construct", o, o) EXCEPT !.names = enabled, !.h = h,
                             !.flags = {DestroyOnDestruction},
                             !.oob = ReadsPastTheEnd(enabled),
                             !.args = args, !.given = names,
                             !.out = ConstructLog(req, mem)]
    /\ live' = live \cup {o}
    /\ UNCHANGED <<destroyCalls, reqVars, propVars, flextVkInstance, threads>>

ConstructInstance(o) == ConstructInstanceFrom(o, ConstructInputs)

\* vkCreateInstance() called by the application itself
ExternalCreate ==
    /\ \E h \in FreshHandles :
          /\ native' = [native EXCEPT ![h] = "alive"]
          /\ owner' = [owner EXCEPT ![h] = "external"]
    /\ lastOp' = Op("create", "", "")
    /\ UNCHANGED <<live, inst, destroyCalls, reqVars, propVars, flextVkInstance, threads>>

\* Instance o = Instance::wrap(h, names, flags)
WrapInstanceFrom(o, nameLists) ==
    /\ o \notin live
    /\ \E h \in Handles, names \in nameLists, flags \in HandleFlagSets,
          elided \in BOOLEAN :
       \E past \in PastTheEndChoices(names) :
          LET r == wrap(h, names, flags, past, elided)
          IN /\ native[h] = "alive" /\ owner[h] = "external" /\ ~Held(h)
             /\ inst' = [inst EXCEPT ![o] = r.result]
             /\ DriverDestroy(r.destroyed)
             /\ owner' = [owner EXCEPT ![h] =
                             IF DestroyOnDestruction \in flags THEN "instance" ELSE @]
             /\ lastOp' = [Op(IF elided THEN "wrap" ELSE "wrapMoved", o, o) EXCEPT
                             !.names = names, !.h = h, !.flags = flags,
                             !.oob = ReadsPastTheEnd(names)]
    /\ live' = live \cup {o}
    /\ UNCHANGED <<reqVars, propVars, flextVkInstance, threads>>

WrapInstance(o) == WrapInstanceFrom(o, InstanceNameLists)

\* Instance o{NoCreate}
NoCreateInstance(o) ==
    /\ o \notin live
    /\ inst' = [inst EXCEPT ![o] = NoCreate]
    /\ live' = live \cup {o}
    /\ lastOp' = Op("noCreate", o, o)
    /\ UNCHANGED <<native, destroyCalls, owner, reqVars, propVars, flextVkInstance, threads>>

\* Instance b = std::move(a)
MoveConstructInstance(b, a) ==
    /\ a \in live /\ b \notin live
    /\ inst' = [inst EXCEPT ![b] = MoveConstruct(inst[a]).self,
                            ![a] = MoveConstruct(inst[a]).other]
    /\ live' = live \cup {b}
    /\ lastOp' = Op("moveConstruct", a, b)
    /\ UNCHANGED <<native, destroyCalls, owner, reqVars, propVars, flextVkInstance, threads>>

\* b = std::move(a)
MoveAssignInstance(b, a) ==
    /\ a \in live /\ b \in live /\ a # b
    /\ inst' = [inst EXCEPT ![b] = MoveAssign(inst[b], inst[a]).self,
                            ![a] = MoveAssign(inst[b], inst[a]).other]
    /\ lastOp' = Op("moveAssign", a, b)
    /\ UNCHANGED <<live, native, destroyCalls, owner, reqVars, propVars, flextVkInstance, threads>>

\* o.release()
ReleaseInstance(o) ==
    /\ o \in live
    /\ inst' = [inst EXCEPT ![o] = release(inst[o]).self]
    /\ owner' = [h \in Handles |->
                    IF h = release(inst[o]).handle THEN "external" ELSE owner[h]]
    /\ lastOp' = [Op("release", o, o) EXCEPT !.h = release(inst[o]).handle]
    /\ UNCHANGED <<live, native, destroyCalls, reqVars, propVars, flextVkInstance, threads>>

\* o goes out of scope
DestroyInstance(o) ==
    /\ o \in live
    /\ DriverDestroy(DestructorDestroys(inst[o]))
    /\ inst' = [inst EXCEPT ![o] = NoCreate]
    /\ live' = live \ {o}
    /\ lastOp' = [Op("destroy", o, o) EXCEPT !.h = inst[o].handle,
                                               !.flags = inst[o].flags]
    /\ UNCHANGED <<owner, reqVars, propVars, flextVkInstance, threads>>

\* the process runs until a fatal assertion ends it
Running == lastOp.op # "abort" /\ lastCall.fn # "abort"

\* VkResult of vkCreateInstance()
CreateResults == {"Success", "ErrorInitializationFailed"}

\* Instance o{info} for the request being built: what was printed, then the
\* Instance, or the end of the process when vkCreateInstance() fails
ConstructOrAbort(o) ==
    /\ Running
    /\ o \notin live
    /\ \E h \in FreshHandles, result \in CreateResults :
          LET enabled == EnabledExtensionNames(info, mem)
              op == [Op(IF result = "Success" THEN "construct" ELSE "abort", o, o) EXCEPT
                        !.names = enabled,
                        !.layers = EnabledLayerNames(info, mem),
                        !.request = <<info, mem>>,
                        !.result = result,
                        !.out = Printed(info, mem, result)]
          IN IF result = "Success"
             THEN /\ \E past \in PastTheEndChoices(enabled) :
                        /\ inst' = [inst EXCEPT ![o] = Construct(info, mem, h, past)]
                        /\ lastOp' = [op EXCEPT !.h = h, !.past = past,
                                         !.flags = {DestroyOnDestruction},
                                         !.oob = ReadsPastTheEnd(enabled)]
                  /\ native' = [native EXCEPT ![h] = "alive"]
                  /\ owner' = [owner EXCEPT ![h] = "instance"]
                  /\ live' = live \cup {o}
             ELSE /\ lastOp' = op
                  /\ UNCHANGED <<live, inst, native, owner>>
    /\ info' = RequestAfterConstruct(info)
    /\ UNCHANGED <<destroyCalls, mem, added, propVars, flextVkInstance, threads>>

\* o goes out of scope while the process runs
DestroyRunning(o) == Running /\ DestroyInstance(o)

\* o.populateGlobalFunctionPointers()
PopulateGlobalFunctionPointers(o) ==
    /\ o \in live
    /\ flextVkInstance' = populateGlobalFunctionPointers(inst[o])
    /\ lastOp' = Op("populateGlobalFunctionPointers", o, o)
    /\ UNCHANGED <<instVars, reqVars, propVars, threads>>

(***************************************************************************)
(* InstanceCreateInfo actions                                              *)
(***************************************************************************)
AddLayers ==
    /\ added.calls < MaxBuilderCalls
    /\ \E layers \in LayerArgs(mem) :
          /\ info' = addEnabledLayers(info, layers)
          /\ added' = [added EXCEPT !.calls = @ + 1, !.layerCalls = 1,
                          !.layers = @ \o Kept(layers, added.args.disableLayers),
                          !.proposedLayers = @ \cup {v.str : v \in Range(layers)}]
    /\ UNCHANGED <<mem, lastOp, instVars, propVars, flextVkInstance, threads>>

AddExtensions ==
    /\ added.calls < MaxBuilderCalls
    /\ \E extensions \in ExtensionArgs(mem) :
          /\ info' = addEnabledExtensions(info, extensions)
          /\ added' = [added EXCEPT !.calls = @ + 1, !.extensionCalls = 1,
                          !.extensions = @ \o Kept(extensions, added.args.disableExtensions),
                          !.proposedExtensions = @ \cup {v.str : v \in Range(extensions)}]
    /\ UNCHANGED <<mem, lastOp, instVars, propVars, flextVkInstance, threads>>

AddInstanceExtensions ==
    /\ added.calls < MaxBuilderCalls
    /\ \E extensions \in KnownArgs :
          LET views == [i \in 1..Len(extensions) |-> LitView(extensions[i].string)]
          IN /\ info' = addEnabledInstanceExtensions(info, extensions)
             /\ added' = [added EXCEPT !.calls = @ + 1, !.extensionCalls = 1,
                             !.extensions = @ \o Kept(views, added.args.disableExtensions),
                             !.proposedExtensions = @ \cup {v.str : v \in Range(views)}]
       /\ UNCHANGED <<mem, lastOp, instVars, propVars, flextVkInstance, threads>>

SetApplicationInfo ==
    /\ added.calls < MaxBuilderCalls
    /\ \E name \in ApplicationNames(mem), version \in Versions :
          /\ info' = setApplicationInfo(info, name, version)
          /\ added' = [added EXCEPT !.calls = @ + 1, !.applicationName = name,
                          !.previousApplicationName = added.applicationName,
                          !.applicationVersion = version]
    /\ UNCHANGED <<mem, lastOp, instVars, propVars, flextVkInstance, threads>>

\* the caller overwrites its local buffer
Scribble ==
    /\ \E bytes \in LocalContents \ {mem} : mem' = bytes
    /\ UNCHANGED <<info, added, lastOp, instVars, propVars, flextVkInstance, threads>>

\* info.addEnabledExtensions(...) while the process runs
AddExtensionsRunning == Running /\ AddExtensions

(***************************************************************************)
(* InstanceProperties                                                      *)
(***************************************************************************)
\* Version{}: the value of _version before it is populated
NoVersion == 0

LAYER_KHRONOS_synchronization2 == <<4, 0>>
LAYER_MESA_overlay == <<4, 3>>

\* the description string of a layer
DescriptionOf(name) == <<7>> \o name

VkLayerProperties(name, spec, implementation) ==
    [layerName |-> name, specVersion |-> spec,
     implementationVersion |-> implementation, description |-> DescriptionOf(name)]
VkExtensionProperties(name, spec) == [extensionName |-> name, specVersion |-> spec]

\* the layer name vkEnumerateInstanceExtensionProperties() takes for the
\* global extensions (nullptr)
GlobalSource == <<>>

\* what a loader reports: in the order it reports it
TwoLayers == <<
    VkLayerProperties(LAYER_MESA_overlay, Vk11, 1),
    VkLayerProperties(LAYER_KHRONOS_validation, MakeVersion(1, 2, 135), 3) >>
ThreeLayers == <<
    VkLayerProperties(LAYER_MESA_overlay, Vk11, 1),
    VkLayerProperties(LAYER_KHRONOS_validation, MakeVersion(1, 2, 135), 3),
    VkLayerProperties(LAYER_KHRONOS_synchronization2, Vk12, 2) >>
LayerNames == {LAYER_MESA_overlay, LAYER_KHRONOS_validation, LAYER_KHRONOS_synchronization2}

NoExtensions == [l \in {GlobalSource} \cup LayerNames |-> <<>>]
\* the validation layer offers an extension the loader offers too, at
\* another revision, and one of its own
ExtensionsWithDuplicates ==
    [NoExtensions EXCEPT
        ![GlobalSource] = << VkExtensionProperties(KHR_surface, 25),
                             VkExtensionProperties(KHR_get_physical_device_properties2, 2),
                             VkExtensionProperties(EXT_debug_report, 9) >>,
        ![LAYER_KHRONOS_validation] = << VkExtensionProperties(EXT_debug_report, 10),
                                         VkExtensionProperties(EXT_validation_features, 2) >>,
        ![LAYER_MESA_overlay] = << VkExtensionProperties(EXT_debug_report, 8) >>]
ExtensionsOfLayersOnly ==
    [NoExtensions EXCEPT
        ![LAYER_KHRONOS_validation] = << VkExtensionProperties(EXT_validation_features, 2),
                                         VkExtensionProperties(EXT_debug_utils, 1) >>]
GlobalExtensionsOnly ==
    [NoExtensions EXCEPT
        ![GlobalSource] = << VkExtensionProperties(KHR_surface, 25),
                             VkExtensionProperties(EXT_debug_utils, 2),
                             VkExtensionProperties(KHR_get_physical_device_properties2, 2),
                             VkExtensionProperties(EXT_debug_report, 9) >>]

\* a loader of Vulkan 1.0 that reports no layers and no extensions
Loader10 ==
    [enumerateInstanceVersion |-> FALSE, version |-> Vk10,
     layers |-> <<>>, extensions |-> NoExtensions]

Drivers == {
    Loader10,
    [enumerateInstanceVersion |-> FALSE, version |-> Vk10,
     layers |-> TwoLayers, extensions |-> GlobalExtensionsOnly],
    [enumerateInstanceVersion |-> TRUE, version |-> MakeVersion(1, 1, 97),
     layers |-> TwoLayers, extensions |-> ExtensionsWithDuplicates],
    [enumerateInstanceVersion |-> TRUE, version |-> MakeVersion(1, 2, 135),
     layers |-> ThreeLayers, extensions |-> ExtensionsOfLayersOnly] }

\* a default-constructed Containers::Array<VkLayerProperties>
NullLayers == [populated |-> FALSE, records |-> <<>>, names |-> <<>>]
\* InstanceProperties(): nothing is populated
NewInstanceProperties == [version |-> NoVersion, layers |-> NullLayers]

NoQueries ==
    [version |-> 0, layerProperties |-> 0, versionCalls |-> 0, versions |-> {},
     outOfRange |-> 0]
Counted(n) == Min(n, MaxCounted)

\* a populateVersion() without the fallback for a loader of Vulkan 1.0
populateVersion_NoFallback(self, drv) ==
    [self |-> IF drv.enumerateInstanceVersion
              THEN [self EXCEPT !.version = drv.version] ELSE self,
     queried |-> IF drv.enumerateInstanceVersion THEN 1 ELSE 0]

\* populateVersion(): the object afterwards and the number of
\* vkEnumerateInstanceVersion() calls made
populateVersion(self, drv) ==
    IF drv.enumerateInstanceVersion
    THEN [self |-> [self EXCEPT !.version = drv.version], queried |-> 1]
    ELSE [self |-> [self EXCEPT !.version = Vk10], queried |-> 0]

\* a version() that asks the loader on every call
version_NoCache(self, drv) ==
    LET p == populateVersion(self, drv)
    IN [self |-> p.self, queried |-> p.queried, result |-> p.self.version]

\* InstanceProperties::version()
version(self, drv) ==
    LET p == IF self.version = NoVersion THEN populateVersion(self, drv)
             ELSE [self |-> self, queried |-> 0]
    IN [self |-> p.self, queried |-> p.queried, result |-> p.self.version]

\* InstanceProperties::isVersionSupported()
isVersionSupported(self, drv, v) ==
    LET p == IF self.version = NoVersion THEN populateVersion(self, drv)
             ELSE [self |-> self, queried |-> 0]
    IN [self |-> p.self, queried |-> p.queried, result |-> v <= p.self.version]

NamesOf(records) == [i \in 1..Len(records) |-> records[i].layerName]

\* a populateLayers() that leaves the name views in the loader's order
populateLayers_Unsorted(self, drv) ==
    [self |-> [self EXCEPT !.layers = [populated |-> TRUE, records |-> drv.layers,
                                       names |-> NamesOf(drv.layers)]],
     queried |-> IF drv.layers = <<>> THEN 1 ELSE 2]

\* populateLayers(): the records in the loader's order, the name views
\* sorted; an empty array that is not null when there are no layers
populateLayers(self, drv) ==
    IF Len(drv.layers) = 0
    THEN [self |-> [self EXCEPT !.layers = [populated |-> TRUE, records |-> <<>>,
                                            names |-> <<>>]],
          queried |-> 1]
    ELSE [self |-> [self EXCEPT !.layers = [populated |-> TRUE, records |-> drv.layers,
                                            names |-> Sort(NamesOf(drv.layers))]],
          queried |-> 2]

\* accessors that enumerate the layers on every call
WithLayers_Always(self, drv) == populateLayers(self, drv)

\* if(!_layers) populateLayers();
WithLayers(self, drv) ==
    IF ~self.layers.populated THEN populateLayers(self, drv)
    ELSE [self |-> self, queried |-> 0]

\* InstanceProperties::layers()
layers(self, drv) ==
    LET p == WithLayers(self, drv)
    IN [self |-> p.self, queried |-> p.queried, result |-> p.self.layers.names]

\* an isLayerSupported() that accepts a name a reported name is a prefix of
isLayerSupported_Prefix(self, drv, layer) ==
    LET p == WithLayers(self, drv)
    IN [self |-> p.self, queried |-> p.queried,
        result |-> \E i \in 1..Len(p.self.layers.names) :
                      LET n == p.self.layers.names[i]
                      IN Len(n) <= Len(layer) /\ SubSeq(layer, 1, Len(n)) = n]

\* InstanceProperties::isLayerSupported()
isLayerSupported(self, drv, layer) ==
    LET p == WithLayers(self, drv)
    IN [self |-> p.self, queried |-> p.queried,
        result |-> BinarySearch(p.self.layers.names, layer)]

\* InstanceProperties::layerCount()
layerCount(self, drv) ==
    LET p == WithLayers(self, drv)
    IN [self |-> p.self, queried |-> p.queried, result |-> Len(p.self.layers.records)]

\* CORRADE_ASSERT(id < count, "<function>(): index" << id << "out of range
\* for" << count << "entries", {}): the line written to Error
AssertMessage(function, id, count) ==
    <<function, "(): index", id, "out of range for", count, "entries">>

\* what an access to _layers[id] with id >= size() can yield
PastLayer == VkLayerProperties(<<0, 0>>, NoVersion, 0)

\* a layer() without the range check
layer_Unchecked(self, drv, id) ==
    LET p == WithLayers(self, drv)
        count == Len(p.self.layers.records)
    IN [self |-> p.self, queried |-> p.queried, out |-> <<>>, read |-> {id},
        result |-> IF id < count THEN p.self.layers.records[id + 1].layerName
                   ELSE PastLayer.layerName]

\* InstanceProperties::layer()
layer(self, drv, id) ==
    LET p == WithLayers(self, drv)
        count == Len(p.self.layers.records)
    IN IF ~(id < count)
       THEN [self |-> p.self, queried |-> p.queried, read |-> {}, result |-> <<>>,
             out |-> <<AssertMessage("Vk::InstanceProperties::layer", id, count)>>]
       ELSE [self |-> p.self, queried |-> p.queried, read |-> {id}, out |-> <<>>,
             result |-> p.self.layers.records[id + 1].layerName]

\* InstanceProperties::layerRevision()
layerRevision(self, drv, id) ==
    LET p == WithLayers(self, drv)
        count == Len(p.self.layers.records)
    IN IF ~(id < count)
       THEN [self |-> p.self, queried |-> p.queried, read |-> {}, result |-> 0,
             out |-> <<AssertMessage("Vk::InstanceProperties::layerRevision", id, count)>>]
       ELSE [self |-> p.self, queried |-> p.queried, read |-> {id}, out |-> <<>>,
             result |-> p.self.layers.records[id + 1].implementationVersion]

\* InstanceProperties::layerVersion()
layerVersion(self, drv, id) ==
    LET p == WithLayers(self, drv)
        count == Len(p.self.layers.records)
    IN IF ~(id < count)
       THEN [self |-> p.self, queried |-> p.queried, read |-> {}, result |-> NoVersion,
             out |-> <<AssertMessage("Vk::InstanceProperties::layerVersion", id, count)>>]
       ELSE [self |-> p.self, queried |-> p.queried, read |-> {id}, out |-> <<>>,
             result |-> p.self.layers.records[id + 1].specVersion]

\* InstanceProperties::layerDescription()
layerDescription(self, drv, id) ==
    LET p == WithLayers(self, drv)
        count == Len(p.self.layers.records)
    IN IF ~(id < count)
       THEN [self |-> p.self, queried |-> p.queried, read |-> {}, result |-> <<>>,
             out |-> <<AssertMessage("Vk::InstanceProperties::layerDescription", id, count)>>]
       ELSE [self |-> p.self, queried |-> p.queried, read |-> {id}, out |-> <<>>,
             result |-> p.self.layers.records[id + 1].description]

(***************************************************************************)
(* InstanceExtensionProperties                                             *)
(***************************************************************************)
NoExtensionProperties ==
    [constructed |-> FALSE, layers |-> <<>>, extensions |-> <<>>, extensionNames |-> <<>>,
     extensionLayers |-> <<>>, uniqueExtensionCount |-> 0]

\* a second pass that stamps every record with 0
QueryExtensions_Unstamped(drv, sources, i) ==
    LET all == [k \in 1..Len(sources) |-> drv.extensions[sources[k]]]
        Flat[k \in 0..Len(sources)] == IF k = 0 THEN <<>> ELSE Flat[k - 1] \o all[k]
    IN [records |-> Flat[Len(sources)],
        layers |-> [j \in 1..Len(Flat[Len(sources)]) |-> 0]]

\* the two passes over the global extensions (i = 1) and the listed layers:
\* the records source by source, each stamped with the number of its source
RECURSIVE QueryExtensions(_, _, _)
QueryExtensions(drv, sources, i) ==
    IF i > Len(sources) THEN [records |-> <<>>, layers |-> <<>>]
    ELSE LET here == drv.extensions[sources[i]]
             rest == QueryExtensions(drv, sources, i + 1)
         IN [records |-> here \o rest.records,
             layers |-> [j \in 1..Len(here) |-> i - 1] \o rest.layers]

\* a view on the extensionName of record rec
NameView(records, rec) == [str |-> records[rec].extensionName, rec |-> rec]

\* std::sort of the name views: the order of views that compare equal is
\* up to the algorithm; `before` tells which of the two orders comes out
RECURSIVE InsertView(_, _, _)
InsertView(s, x, before) ==
    IF s = <<>> THEN <<x>>
    ELSE IF StrLess(x.str, s[1].str) \/ (before /\ x.str = s[1].str) THEN <<x>> \o s
    ELSE <<s[1]>> \o InsertView(Tail(s), x, before)

RECURSIVE SortViews(_, _)
SortViews(s, before) ==
    IF s = <<>> THEN <<>> ELSE InsertView(SortViews(Tail(s), before), s[1], before)

\* a std::unique that keeps everything
Unique_KeepsAll(s) == s

\* std::unique: the first view of every run of equal names
RECURSIVE Unique(_)
Unique(s) ==
    IF Len(s) <= 1 THEN s
    ELSE IF s[1].str = s[2].str THEN Unique(<<s[1]>> \o Tail(Tail(s)))
    ELSE <<s[1]>> \o Unique(Tail(s))

\* InstanceExtensionProperties(layers): std::unique leaves the views behind
\* the new end as std::sort put them
NewInstanceExtensionProperties(drv, layerList, before) ==
    LET q == QueryExtensions(drv, <<GlobalSource>> \o layerList, 1)
        views == [i \in 1..Len(q.records) |-> NameView(q.records, i)]
        sorted == SortViews(views, before)
        unique == Unique(sorted)
    IN [constructed |-> TRUE, layers |-> layerList,
        extensions |-> q.records, extensionLayers |-> q.layers,
        extensionNames |-> unique \o SubSeq(sorted, Len(unique) + 1, Len(sorted)),
        uniqueExtensionCount |-> Len(unique)]

\* InstanceExtensionProperties::extensions()
extensions(self) == [i \in 1..self.uniqueExtensionCount |-> self.extensionNames[i].str]

\* InstanceExtensionProperties::isExtensionSupported()
isExtensionSupported(self, extension) == BinarySearch(extensions(self), extension)

\* InstanceExtensionProperties::extensionCount()
extensionCount(self) == Len(self.extensions)

\* InstanceExtensionProperties::extension()
extension(self, id) ==
    IF ~(id < Len(self.extensions))
    THEN [read |-> {}, result |-> <<>>,
          out |-> <<AssertMessage("Vk::InstanceExtensionProperties::extension", id,
                                  Len(self.extensions))>>]
    ELSE [read |-> {id}, out |-> <<>>, result |-> self.extensions[id + 1].extensionName]

\* InstanceExtensionProperties::extensionRevision(UnsignedInt)
extensionRevision(self, id) ==
    IF ~(id < Len(self.extensions))
    THEN [read |-> {}, result |-> 0,
          out |-> <<AssertMessage("Vk::InstanceExtensionProperties::extensionRevision", id,
                                  Len(self.extensions))>>]
    ELSE [read |-> {id}, out |-> <<>>, result |-> self.extensions[id + 1].specVersion]

\* InstanceExtensionProperties::extensionLayer()
extensionLayer(self, id) ==
    IF ~(id < Len(self.extensions))
    THEN [read |-> {}, result |-> 0,
          out |-> <<AssertMessage("Vk::InstanceExtensionProperties::extensionLayer", id,
                                  Len(self.extensions))>>]
    ELSE [read |-> {id}, out |-> <<>>, result |-> self.extensionLayers[id + 1]]

\* What *found yields when found is the end of the whole name array: the
\* bytes behind it are the layer numbers or lie outside the allocation, so
\* the build decides whether they compare equal to the name looked up and
\* which revision is then read through them.
PastTheNames(name) ==
    {[str |-> <<0, 0>>, specVersion |-> 0], [str |-> name, specVersion |-> 77]}

\* InstanceExtensionProperties::extensionRevision(Containers::StringView):
\* found is a position in 1..uniqueExtensionCount+1, read without a test
\* against the end
extensionRevisionNamed(self, name, past) ==
    LET found == LowerBound(extensions(self), name)
        inside == found <= Len(self.extensionNames)
        foundStr == IF inside THEN self.extensionNames[found].str ELSE past.str
    IN [found |-> found,
        result |-> IF foundStr # name THEN 0
                   ELSE IF inside
                   THEN self.extensions[self.extensionNames[found].rec].specVersion
                   ELSE past.specVersion]

(***************************************************************************)
(* InstanceProperties and InstanceExtensionProperties actions              *)
(***************************************************************************)
VK_this_doesnt_exist == <<5, 1>>         \* sorts after every "VK_KHR_" name
KHR_surface_hello == <<3, 6, 1>>         \* a reported name with a suffix

Ids == 0..MaxId
QueriedVersions == {Vk10, Vk11, Vk12, MakeVersion(1, 1, 97), MakeVersion(2, 0, 0)}
QueriedLayers ==
    LayerNames \cup {LAYER_KHRONOS_validation3, LAYER_this_doesnt_exist, <<>>}
QueriedExtensions ==
    {EXT_debug_report, EXT_debug_utils, EXT_validation_features, KHR_surface,
     KHR_get_physical_device_properties2, KHR_surface_hello, AMD_unknown,
     VK_this_doesnt_exist, <<>>}
\* layer lists an InstanceExtensionProperties is constructed with
LayerLists == {
    <<>>,
    <<LAYER_KHRONOS_validation>>,
    <<LAYER_KHRONOS_validation, LAYER_MESA_overlay>>,
    <<LAYER_KHRONOS_synchronization2>> }

\* the last call: function, arguments, result, lines written to Error, the
\* record indices read, the position extensionRevision(name) read
Call(fn) ==
    [fn |-> fn, id |-> 0, name |-> <<>>, ver |-> NoVersion, result |-> 0,
     out |-> <<>>, read |-> {}, found |-> 0]

restVars == <<live, inst, native, destroyCalls, owner, lastOp, info, mem, added>>

\* InstanceProperties properties;
ConstructInstanceProperties ==
    /\ properties' = NewInstanceProperties
    /\ queries' = NoQueries
    /\ lastCall' = Call("InstanceProperties")
    /\ UNCHANGED <<driver, extensionProperties, restVars, flextVkInstance, threads>>

Version ==
    /\ LET r == version(properties, driver)
       IN /\ properties' = r.self
          /\ queries' = [queries EXCEPT !.version = Counted(@ + r.queried),
                                        !.versionCalls = Counted(@ + 1),
                                        !.versions = @ \cup {r.result}]
          /\ lastCall' = [Call("version") EXCEPT !.result = r.result]
    /\ UNCHANGED <<driver, extensionProperties, restVars, flextVkInstance, threads>>

IsVersionSupported ==
    /\ \E v \in QueriedVersions :
          LET r == isVersionSupported(properties, driver, v)
          IN /\ properties' = r.self
             /\ queries' = [queries EXCEPT !.version = Counted(@ + r.queried),
                                           !.versionCalls = Counted(@ + 1)]
             /\ lastCall' = [Call("isVersionSupported") EXCEPT !.ver = v,
                                                               !.result = r.result]
    /\ UNCHANGED <<driver, extensionProperties, restVars, flextVkInstance, threads>>

Layers ==
    /\ LET r == layers(properties, driver)
       IN /\ properties' = r.self
          /\ queries' = [queries EXCEPT !.layerProperties = Counted(@ + r.queried)]
          /\ lastCall' = [Call("layers") EXCEPT !.result = r.result]
    /\ UNCHANGED <<driver, extensionProperties, restVars, flextVkInstance, threads>>

IsLayerSupported ==
    /\ \E name \in QueriedLayers :
          LET r == isLayerSupported(properties, driver, name)
          IN /\ properties' = r.self
             /\ queries' = [queries EXCEPT !.layerProperties = Counted(@ + r.queried)]
             /\ lastCall' = [Call("isLayerSupported") EXCEPT !.name = name,
                                                             !.result = r.result]
    /\ UNCHANGED <<driver, extensionProperties, restVars, flextVkInstance, threads>>

LayerCount ==
    /\ LET r == layerCount(properties, driver)
       IN /\ properties' = r.self
          /\ queries' = [queries EXCEPT !.layerProperties = Counted(@ + r.queried)]
          /\ lastCall' = [Call("layerCount") EXCEPT !.result = r.result]
    /\ UNCHANGED <<driver, extensionProperties, restVars, flextVkInstance, threads>>

\* the effect of an index-based accessor of InstanceProperties
LayerAccess(fn, id, r) ==
    /\ properties' = r.self
    /\ queries' = [queries EXCEPT !.layerProperties = Counted(@ + r.queried),
                                  !.outOfRange = Counted(@ + Len(r.out))]
    /\ lastCall' = [Call(fn) EXCEPT !.id = id, !.result = r.result, !.out = r.out,
                                    !.read = r.read]
    /\ UNCHANGED <<driver, extensionProperties, restVars, flextVkInstance, threads>>

Layer == \E id \in Ids : LayerAccess("layer", id, layer(properties, driver, id))

LayerRevision ==
    \E id \in Ids : LayerAccess("layerRevision", id, layerRevision(properties, driver, id))

LayerVersion ==
    \E id \in Ids : LayerAccess("layerVersion", id, layerVersion(properties, driver, id))

LayerDescription ==
    \E id \in Ids :
        LayerAccess("layerDescription", id, layerDescription(properties, driver, id))

\* InstanceExtensionProperties extensionProperties{layerList}; the listed
\* layers are expected to be supported
ConstructInstanceExtensionProperties ==
    /\ \E layerList \in LayerLists, before \in BOOLEAN :
          /\ Range(layerList) \subseteq Range(NamesOf(driver.layers))
          /\ extensionProperties' =
                NewInstanceExtensionProperties(driver, layerList, before)
    /\ lastCall' = Call("InstanceExtensionProperties")
    /\ UNCHANGED <<driver, properties, queries, restVars, flextVkInstance, threads>>

Extensions ==
    /\ extensionProperties.constructed
    /\ lastCall' = [Call("extensions") EXCEPT !.result = extensions(extensionProperties)]
    /\ UNCHANGED <<driver, properties, extensionProperties, queries, restVars, flextVkInstance, threads>>

IsExtensionSupported ==
    /\ extensionProperties.constructed
    /\ \E name \in QueriedExtensions :
          lastCall' = [Call("isExtensionSupported") EXCEPT !.name = name,
                          !.result = isExtensionSupported(extensionProperties, name)]
    /\ UNCHANGED <<driver, properties, extensionProperties, queries, restVars, flextVkInstance, threads>>

ExtensionCount ==
    /\ extensionProperties.constructed
    /\ lastCall' = [Call("extensionCount") EXCEPT
                       !.result = extensionCount(extensionProperties)]
    /\ UNCHANGED <<driver, properties, extensionProperties, queries, restVars, flextVkInstance, threads>>

\* the effect of an index-based accessor of InstanceExtensionProperties
ExtensionAccess(fn, id, r) ==
    /\ extensionProperties.constructed
    /\ queries' = [queries EXCEPT !.outOfRange = Counted(@ + Len(r.out))]
    /\ lastCall' = [Call(fn) EXCEPT !.id = id, !.result = r.result, !.out = r.out,
                                    !.read = r.read]
    /\ UNCHANGED <<driver, properties, extensionProperties, restVars, flextVkInstance, threads>>

Extension ==
    \E id \in Ids : ExtensionAccess("extension", id, extension(extensionProperties, id))

ExtensionRevision ==
    \E id \in Ids :
        ExtensionAccess("extensionRevision", id, extensionRevision(extensionProperties, id))

ExtensionLayer ==
    \E id \in Ids :
        ExtensionAccess("extensionLayer", id, extensionLayer(extensionProperties, id))

\* for(... : InstanceExtension::extensions(version))
KnownExtensions ==
    /\ \E key \in VersionKeys :
          lastCall' = [Call("InstanceExtension::extensions") EXCEPT !.ver = key,
                          !.result = InstanceExtension_extensions(key)]
    /\ UNCHANGED <<driver, properties, extensionProperties, queries, restVars, flextVkInstance, threads>>

ExtensionRevisionNamed ==
    /\ extensionProperties.constructed
    /\ \E name \in QueriedExtensions :
          \E past \in PastTheNames(name) :
             LET r == extensionRevisionNamed(extensionProperties, name, past)
             IN lastCall' = [Call("extensionRevisionNamed") EXCEPT !.name = name,
                                !.result = r.result, !.found = r.found]
    /\ UNCHANGED <<driver, properties, extensionProperties, queries, restVars, flextVkInstance, threads>>

(***************************************************************************)
(* A loader whose calls can fail                                           *)
(***************************************************************************)
\* VkResult of a loader query
QueryResults == {"Success", "ErrorOutOfHostMemory"}

\* MAGNUM_VK_INTERNAL_ASSERT_RESULT(call): the function goes on when the call
\* returned success, the process ends otherwise
AssertResult(result) == result = "Success"

\* a loader call made: its pass (count or fill), result and record count
LoaderCall(call, pass, result, count) ==
    [call |-> call, pass |-> pass, result |-> result, count |-> count]

\* vkEnumerate...Properties(&count, data) with room for `capacity` records
\* on a loader that has the records `available`
Enumerate(available, capacity) ==
    [result |-> IF Len(available) > capacity THEN "Incomplete" ELSE "Success",
     records |-> SubSeq(available, 1, Min(Len(available), capacity))]

\* populateVersion() when vkEnumerateInstanceVersion() returns `result`
TryPopulateVersion(self, drv, result) ==
    IF ~drv.enumerateInstanceVersion
    THEN [aborted |-> FALSE, self |-> populateVersion(self, drv).self, calls |-> <<>>]
    ELSE [aborted |-> ~AssertResult(result),
          self |-> IF AssertResult(result) THEN populateVersion(self, drv).self ELSE self,
          calls |-> <<LoaderCall("vkEnumerateInstanceVersion", "value", result, 1)>>]

\* version() on such a loader
TryVersion(self, drv, result) ==
    IF self.version = NoVersion THEN TryPopulateVersion(self, drv, result)
    ELSE [aborted |-> FALSE, self |-> self, calls |-> <<>>]

\* populateLayers() when the two queries return faults[1] and faults[2] (or
\* what the loader makes of the room given) and the loader has the layers
\* `now` at the second one
TryPopulateLayers(self, drv, faults, now) ==
    LET count == Len(drv.layers)
        fill == Enumerate(now, count)
        fillResult == IF faults[2] # "Success" THEN faults[2] ELSE fill.result
        countCall == LoaderCall("vkEnumerateInstanceLayerProperties", "count",
                                faults[1], count)
        fillCall == LoaderCall("vkEnumerateInstanceLayerProperties", "fill",
                               fillResult, Len(fill.records))
    IN IF ~AssertResult(faults[1])
       THEN [aborted |-> TRUE, self |-> self, calls |-> <<countCall>>]
       ELSE IF count = 0
       THEN [aborted |-> FALSE, self |-> populateLayers(self, drv).self,
             calls |-> <<countCall>>]
       ELSE IF ~AssertResult(fillResult) \/ Len(fill.records) # count
       THEN [aborted |-> TRUE, self |-> self, calls |-> <<countCall, fillCall>>]
       ELSE [aborted |-> FALSE,
             self |-> populateLayers(self, [drv EXCEPT !.layers = fill.records]).self,
             calls |-> <<countCall, fillCall>>]

\* layers() on such a loader
TryLayers(self, drv, faults, now) ==
    IF ~self.layers.populated THEN TryPopulateLayers(self, drv, faults, now)
    ELSE [aborted |-> FALSE, self |-> self, calls |-> <<>>]

\* the two passes of InstanceExtensionProperties(layers) on such a loader:
\* the count pass sees drv.extensions, the fill pass sees `now`
ExtensionPasses(drv, layerList, faults, now) ==
    LET sources == <<GlobalSource>> \o layerList
        n == Len(sources)
        Total[k \in 0..n] ==
            IF k = 0 THEN 0 ELSE Total[k - 1] + Len(drv.extensions[sources[k]])
        Fill[k \in 0..n] ==
            IF k = 0 THEN [ok |-> AssertResult(faults[2]), offset |-> 0, calls |-> <<>>]
            ELSE IF ~Fill[k - 1].ok THEN Fill[k - 1]
            ELSE LET e == Enumerate(now[sources[k]], Total[n] - Fill[k - 1].offset)
                 IN [ok |-> AssertResult(e.result),
                     offset |-> Fill[k - 1].offset + Len(e.records),
                     calls |-> Fill[k - 1].calls \o
                         <<LoaderCall("vkEnumerateInstanceExtensionProperties", "fill",
                                      e.result, Len(e.records))>>]
    IN [totalCount |-> Total[n], ok |-> Fill[n].ok, offset |-> Fill[n].offset,
        calls |-> [k \in 1..(IF AssertResult(faults[1]) THEN n ELSE 1) |->
                      LoaderCall("vkEnumerateInstanceExtensionProperties", "count",
                                 IF k = 1 THEN faults[1] ELSE "Success",
                                 Len(drv.extensions[sources[k]]))]
                  \o (IF AssertResult(faults[1])
                      THEN (IF AssertResult(faults[2]) THEN <<>>
                            ELSE <<LoaderCall("vkEnumerateInstanceExtensionProperties",
                                              "fill", faults[2], 0)>>) \o Fill[n].calls
                      ELSE <<>>)]

\* a constructor without the assertion on the total count
TryInstanceExtensionProperties_NoCountAssert(drv, layerList, before, faults, now) ==
    LET p == ExtensionPasses(drv, layerList, faults, now)
        aborted == ~AssertResult(faults[1]) \/ ~p.ok
    IN [aborted |-> aborted, calls |-> p.calls,
        self |-> IF aborted THEN NoExtensionProperties
                 ELSE NewInstanceExtensionProperties([drv EXCEPT !.extensions = now],
                                                     layerList, before)]

\* InstanceExtensionProperties(layers) on such a loader: every call is
\* asserted to succeed, and so is offset == totalCount
TryInstanceExtensionProperties(drv, layerList, before, faults, now) ==
    LET p == ExtensionPasses(drv, layerList, faults, now)
        aborted == ~AssertResult(faults[1]) \/ ~p.ok \/ p.offset # p.totalCount
    IN [aborted |-> aborted, calls |-> p.calls,
        self |-> IF aborted THEN NoExtensionProperties
                 ELSE NewInstanceExtensionProperties([drv EXCEPT !.extensions = now],
                                                     layerList, before)]

\* what the loader can have at the second query: the same layers, one less,
\* one more
LayersNow(drv) ==
    {drv.layers, drv.layers \o <<VkLayerProperties(LAYER_this_doesnt_exist, Vk10, 1)>>}
        \cup (IF drv.layers = <<>> THEN {} ELSE {Tail(drv.layers)})

\* the same for the extensions: unchanged, one global extension less, one
\* more, and one less made up for by the first listed layer
ExtensionsNow(drv, layerList) ==
    LET global == drv.extensions[GlobalSource]
        more(l) == [drv.extensions EXCEPT
                       ![l] = @ \o <<VkExtensionProperties(AMD_unknown, 1)>>]
    IN {drv.extensions, more(GlobalSource)}
          \cup (IF global = <<>> THEN {}
                ELSE {[drv.extensions EXCEPT ![GlobalSource] = Tail(global)]}
                        \cup (IF layerList = <<>> THEN {}
                              ELSE {[more(layerList[1]) EXCEPT
                                        ![GlobalSource] = Tail(global)]}))

\* the call ends the process or returns
Outcome(fn, r) == [Call(IF r.aborted THEN "abort" ELSE fn) EXCEPT !.out = r.calls]

VersionOrAbort ==
    /\ Running
    /\ \E result \in QueryResults :
          LET r == TryVersion(properties, driver, result)
          IN /\ properties' = r.self
             /\ lastCall' = [Outcome("version", r) EXCEPT !.result = r.self.version]
    /\ UNCHANGED <<driver, extensionProperties, queries, restVars, flextVkInstance, threads>>

LayersOrAbort ==
    /\ Running
    /\ \E faults \in QueryResults \X QueryResults, now \in LayersNow(driver) :
          LET r == TryLayers(properties, driver, faults, now)
          IN /\ properties' = r.self
             /\ lastCall' = [Outcome("layers", r) EXCEPT !.result = r.self.layers.names]
    /\ UNCHANGED <<driver, extensionProperties, queries, restVars, flextVkInstance, threads>>

InstanceExtensionPropertiesOrAbort ==
    /\ Running
    /\ \E layerList \in LayerLists, before \in BOOLEAN,
          faults \in QueryResults \X QueryResults :
          /\ Range(layerList) \subseteq Range(NamesOf(driver.layers))
          /\ \E now \in ExtensionsNow(driver, layerList) :
                LET r == TryInstanceExtensionProperties(driver, layerList, before,
                                                        faults, now)
                IN /\ extensionProperties' =
                         IF r.aborted THEN extensionProperties ELSE r.self
                   /\ lastCall' = Outcome("InstanceExtensionProperties", r)
    /\ UNCHANGED <<driver, properties, queries, restVars, flextVkInstance, threads>>

(***************************************************************************)
(* Threads sharing one InstanceProperties                                  *)
(***************************************************************************)
\* the two threads that share the object
Threads == {"t1", "t2"}

\* a thread outside any call: the members it saw unpopulated at its last
\* check, how often it populated each member and queried the loader for it,
\* the members it overwrote, and what its last call returned
Idle ==
    [pc |-> "idle", fn |-> "none", seen |-> {}, overwrote |-> {}, raced |-> FALSE,
     populated |-> [version |-> 0, layers |-> 0],
     queried |-> [version |-> 0, layers |-> 0],
     version |-> NoVersion, names |-> <<>>, indeterminate |-> FALSE]

\* a check that never finds the member populated
SeesPopulated_Never(self, member) == FALSE

\* _version == Version{} and !_layers, negated
SeesPopulated(self, member) ==
    IF member = "version" THEN self.version # NoVersion ELSE self.layers.populated

\* what a read of the name views can give while another thread writes them:
\* nothing, the names in the loader's order, the sorted names
IndeterminateNames(drv) == {<<>>, NamesOf(drv.layers), Sort(NamesOf(drv.layers))}

\* another thread is between the assignment of _layers and the end of the sort
Filling(t) == \E u \in Threads \ {t} : threads[u].pc = "fillLayers"

\* version(): the check; returns at once when the member is populated
CallVersion(t) ==
    /\ threads[t].pc = "idle"
    /\ threads' = [threads EXCEPT ![t] =
          IF SeesPopulated(properties, "version")
          THEN [@ EXCEPT !.fn = "version", !.seen = @ \ {"version"},
                         !.version = properties.version]
          ELSE [@ EXCEPT !.fn = "version", !.seen = @ \cup {"version"},
                         !.pc = "populateVersion"]]
    /\ UNCHANGED <<propVars, restVars, flextVkInstance>>

\* populateVersion(), then the return of _version
PopulateVersion(t) ==
    /\ threads[t].pc = "populateVersion"
    /\ threads[t].populated.version < MaxCounted
    /\ LET r == populateVersion(properties, driver)
       IN /\ properties' = r.self
          /\ threads' = [threads EXCEPT ![t] =
                [@ EXCEPT !.pc = "idle",
                          !.populated.version = @ + 1,
                          !.queried.version = @ + r.queried,
                          !.overwrote = IF SeesPopulated(properties, "version")
                                        THEN @ \cup {"version"} ELSE @,
                          !.version = r.self.version]]
    /\ UNCHANGED <<driver, extensionProperties, queries, lastCall, restVars,
                   flextVkInstance>>

\* layers(): the check; returns views into _layers when it is non-null
CallLayers(t) ==
    /\ threads[t].pc = "idle"
    /\ IF SeesPopulated(properties, "layers")
       THEN \E names \in (IF Filling(t) THEN IndeterminateNames(driver)
                          ELSE {properties.layers.names}) :
               threads' = [threads EXCEPT ![t] =
                   [@ EXCEPT !.fn = "layers", !.seen = @ \ {"layers"},
                             !.names = names, !.indeterminate = Filling(t)]]
       ELSE threads' = [threads EXCEPT ![t] =
                   [@ EXCEPT !.fn = "layers", !.seen = @ \cup {"layers"},
                             !.pc = "countLayers"]]
    /\ UNCHANGED <<propVars, restVars, flextVkInstance>>

\* populateLayers(): the count query and the branch for no layers
CountLayers(t) ==
    /\ threads[t].pc = "countLayers"
    /\ threads[t].populated.layers < MaxCounted
    /\ IF Len(driver.layers) = 0
       THEN /\ properties' = populateLayers(properties, driver).self
            /\ threads' = [threads EXCEPT ![t] =
                  [@ EXCEPT !.pc = "idle",
                            !.populated.layers = @ + 1,
                            !.queried.layers = @ + 1,
                            !.overwrote = IF SeesPopulated(properties, "layers")
                                          THEN @ \cup {"layers"} ELSE @,
                            !.names = <<>>, !.indeterminate = FALSE]]
       ELSE /\ threads' = [threads EXCEPT ![t] =
                  [@ EXCEPT !.pc = "allocateLayers", !.queried.layers = @ + 1]]
            /\ UNCHANGED properties
    /\ UNCHANGED <<driver, extensionProperties, queries, lastCall, restVars,
                   flextVkInstance>>

\* populateLayers(): _layers = Array{new char[...], count}, not yet filled
AllocateLayers(t) ==
    /\ threads[t].pc = "allocateLayers"
    /\ properties' = [properties EXCEPT
                         !.layers = [populated |-> TRUE, records |-> <<>>, names |-> <<>>]]
    /\ threads' = [threads EXCEPT ![t] =
          [@ EXCEPT !.pc = "fillLayers",
                    !.raced = Filling(t),
                    !.overwrote = IF SeesPopulated(properties, "layers")
                                  THEN @ \cup {"layers"} ELSE @]]
    /\ UNCHANGED <<driver, extensionProperties, queries, lastCall, restVars,
                   flextVkInstance>>

\* populateLayers(): the record query into _layers, the count assertion, the
\* name views and their sort; then the return of the views. Two threads doing
\* this at once write the same views
FillLayers(t) ==
    /\ threads[t].pc = "fillLayers"
    /\ LET r == populateLayers(properties, driver)
           racing == Filling(t) \/ threads[t].raced
       IN \E names \in (IF racing THEN IndeterminateNames(driver)
                        ELSE {r.self.layers.names}) :
             /\ properties' = [r.self EXCEPT !.layers.names = names]
             /\ threads' = [u \in Threads |->
                   IF u = t
                   THEN [threads[u] EXCEPT !.pc = "idle", !.raced = FALSE,
                                           !.populated.layers = @ + 1,
                                           !.queried.layers = @ + 1,
                                           !.names = names,
                                           !.indeterminate = racing]
                   ELSE IF threads[u].pc = "fillLayers"
                   THEN [threads[u] EXCEPT !.raced = TRUE]
                   ELSE threads[u]]
    /\ UNCHANGED <<driver, extensionProperties, queries, lastCall, restVars,
                   flextVkInstance>>

(***************************************************************************)
(* Specifications                                                          *)
(***************************************************************************)
InstInit ==
    /\ live = {}
    /\ inst = [o \in Objs |-> NoCreate]
    /\ native = [h \in Handles |-> "none"]
    /\ destroyCalls = [h \in Handles |-> 0]
    /\ owner = [h \in Handles |-> "none"]
    /\ flextVkInstance = 0
    /\ threads = [t \in Threads |-> Idle]

ReqInit(args) ==
    /\ info = InstanceCreateInfoArgs(args)
    /\ mem = KHR_external_memory_capabilities
    /\ added = AddedByArgs(args)
    /\ lastOp = Op("init", "", "")

PropInit(drv) ==
    /\ driver = drv
    /\ properties = NewInstanceProperties
    /\ extensionProperties = NoExtensionProperties
    /\ queries = NoQueries
    /\ lastCall = Call("none")

\* the lifetime of Instance objects
Init == InstInit /\ ReqInit(NoArgs) /\ PropInit(Loader10)

Next ==
    \/ \E o \in Objs : ConstructInstance(o)
    \/ ExternalCreate
    \/ \E o \in Objs : WrapInstance(o)
    \/ \E o \in Objs : NoCreateInstance(o)
    \/ \E a, b \in Objs : MoveConstructInstance(b, a)
    \/ \E a, b \in Objs : MoveAssignInstance(b, a)
    \/ \E o \in Objs : ReleaseInstance(o)
    \/ \E o \in Objs : DestroyInstance(o)

Spec == Init /\ [][Next]_vars

\* Instance objects and the global function pointers
GlobalInputs == {<<NoArgs, <<EXT_debug_report>>>>}
GlobalNameLists == {<<EXT_debug_report>>}

NextGlobal ==
    \/ \E o \in Objs : ConstructInstanceFrom(o, GlobalInputs)
    \/ ExternalCreate
    \/ \E o \in Objs : WrapInstanceFrom(o, GlobalNameLists)
    \/ \E o \in Objs : NoCreateInstance(o)
    \/ \E a, b \in Objs : MoveConstructInstance(b, a)
    \/ \E a, b \in Objs : MoveAssignInstance(b, a)
    \/ \E o \in Objs : ReleaseInstance(o)
    \/ \E o \in Objs : DestroyInstance(o)
    \/ \E o \in Objs : PopulateGlobalFunctionPointers(o)

SpecGlobal == Init /\ [][NextGlobal]_vars

\* building an InstanceCreateInfo
InitRequest == InstInit /\ PropInit(Loader10) /\ \E args \in ArgSets : ReqInit(args)

NextRequest ==
    \/ AddLayers
    \/ AddExtensions
    \/ AddInstanceExtensions
    \/ SetApplicationInfo
    \/ Scribble

SpecRequest == InitRequest /\ [][NextRequest]_vars

\* structures filled by the caller: empty, layers only, extensions only, both
VkInfos == {
    VkInstanceCreateInfo(<<>>, <<>>),
    VkInstanceCreateInfo(<<LAYER_KHRONOS_validation>>, <<>>),
    VkInstanceCreateInfo(<<>>, <<EXT_debug_report, KHR_surface>>),
    VkInstanceCreateInfo(<<LAYER_this_doesnt_exist, LAYER_KHRONOS_validation>>,
                         <<EXT_debug_utils>>) }

\* building on an InstanceCreateInfo made from an existing structure
InitExisting ==
    /\ InstInit /\ PropInit(Loader10)
    /\ \E vkInfo \in VkInfos : info = InstanceCreateInfoVk(vkInfo)
    /\ mem = KHR_external_memory_capabilities
    /\ added = AddedByArgs(NoArgs)
    /\ lastOp = Op("init", "", "")

SpecExisting == InitExisting /\ [][NextRequest]_vars

\* building a request and creating instances from it
NextCreate ==
    \/ AddExtensionsRunning
    \/ \E o \in Objs : ConstructOrAbort(o)
    \/ \E o \in Objs : DestroyRunning(o)

SpecCreate == InitRequest /\ [][NextCreate]_vars

\* querying the loader through InstanceProperties and
\* InstanceExtensionProperties
InitProperties == InstInit /\ ReqInit(NoArgs) /\ \E drv \in Drivers : PropInit(drv)

NextProperties ==
    \/ ConstructInstanceProperties
    \/ Version
    \/ IsVersionSupported
    \/ Layers
    \/ IsLayerSupported
    \/ LayerCount
    \/ Layer
    \/ LayerRevision
    \/ LayerVersion
    \/ LayerDescription
    \/ ConstructInstanceExtensionProperties
    \/ Extensions
    \/ IsExtensionSupported
    \/ ExtensionCount
    \/ Extension
    \/ ExtensionRevision
    \/ ExtensionLayer
    \/ ExtensionRevisionNamed
    \/ KnownExtensions

SpecProperties == InitProperties /\ [][NextProperties]_vars

\* queries and creations on a loader whose calls can fail
NextFailing ==
    \/ VersionOrAbort
    \/ LayersOrAbort
    \/ InstanceExtensionPropertiesOrAbort
    \/ \E o \in Objs : ConstructOrAbort(o)
    \/ \E o \in Objs : DestroyRunning(o)

SpecFailing == InitProperties /\ [][NextFailing]_vars

\* threads calling version() and layers() on one InstanceProperties
NextThreads ==
    \E t \in Threads :
       \/ CallVersion(t)
       \/ PopulateVersion(t)
       \/ CallLayers(t)
       \/ CountLayers(t)
       \/ AllocateLayers(t)
       \/ FillLayers(t)

SpecThreads == InitProperties /\ [][NextThreads]_vars

(***************************************************************************)
(* Properties of the Instance lifetime (specification Spec)                *)
(***************************************************************************)
IsEnabled(self, e) == e.index \in self.extensionStatus

\* C1: a handle an Instance answers for (created by the constructor, or
\* wrapped with DestroyOnDestruction, and not released since) is passed to
\* DestroyInstance at most once, and exactly once when no Instance object
\* is left.
C1_OwnedDestroyedOnce ==
    /\ \A h \in Handles : destroyCalls[h] <= 1
    /\ live = {} => \A h \in Handles : owner[h] = "instance" => destroyCalls[h] = 1

C1_Witness ==
    /\ live = {}
    /\ \E h \in Handles : owner[h] = "instance" /\ destroyCalls[h] = 1
    /\ \E h \in Handles : owner[h] = "external" /\ native[h] = "alive"

IsMove(op) == op.op \in {"moveConstruct", "moveAssign"}

BHoldsWhatAHad(a, b) ==
    /\ inst'[b].handle = inst[a].handle
    /\ inst'[b].flags = inst[a].flags
    /\ inst'[b].functionPointers = inst[a].functionPointers

\* C2 as claimed: after either move, for any prior state of b, a has a null
\* handle and its destruction calls nothing, and b holds the handle, flags and
\* function pointers a had.
C2_MovedFromIsNull ==
    [][IsMove(lastOp') =>
          /\ inst'[lastOp'.a].handle = 0
          /\ DestructorDestroys(inst'[lastOp'.a]) = 0
          /\ BHoldsWhatAHad(lastOp'.a, lastOp'.b)]_vars

\* C2 amended: b holds the handle, flags and function pointers a had; after a
\* move construction a has a null handle and its destruction calls nothing;
\* after a move assignment a holds the handle, flags and function pointers b
\* had before (the two are swapped), so a is null exactly when b was.
C2_MoveSwaps ==
    [][IsMove(lastOp') =>
          /\ BHoldsWhatAHad(lastOp'.a, lastOp'.b)
          /\ lastOp'.op = "moveConstruct" =>
                /\ inst'[lastOp'.a].handle = 0
                /\ DestructorDestroys(inst'[lastOp'.a]) = 0
          /\ lastOp'.op = "moveAssign" =>
                /\ inst'[lastOp'.a].handle = inst[lastOp'.b].handle
                /\ inst'[lastOp'.a].flags = inst[lastOp'.b].flags
                /\ inst'[lastOp'.a].functionPointers = inst[lastOp'.b].functionPointers
                /\ DestructorDestroys(inst'[lastOp'.a]) = DestructorDestroys(inst[lastOp'.b])]_vars

\* a move assignment onto an object that held a handle of its own
C2_Witness ==
    /\ lastOp.op = "moveAssign"
    /\ inst[lastOp.a].handle # 0
    /\ inst[lastOp.b].handle # 0
    /\ DestructorDestroys(inst[lastOp.a]) # 0

NamesEnabledExactly(self, names) ==
    \A e \in Catalog : IsEnabled(self, e) <=> e.string \in Range(names)

\* C3: after Instance(info), isExtensionEnabled(E) is true exactly for the
\* catalog extensions E named in the request's enabled extension list.
C3_EnabledIffRequested ==
    lastOp.op = "construct" => NamesEnabledExactly(inst[lastOp.a], lastOp.names)

\* C4: Instance::wrap() creates no native instance, loads the function
\* pointers for the handle and reports as enabled exactly the catalog
\* extensions named in enabledExtensions.
C4_WrapEnabledIffListed ==
    lastOp.op \in {"wrap", "wrapMoved"} =>
        /\ inst[lastOp.a].handle = lastOp.h
        /\ inst[lastOp.a].functionPointers = lastOp.h
        /\ NamesEnabledExactly(inst[lastOp.a], lastOp.names)

\* C5: a constructed Instance has the flags DestroyOnDestruction, a wrapped
\* one the flags the caller passed; the destructor calls DestroyInstance, on
\* the handle held, exactly when that handle is non-null and
\* DestroyOnDestruction is set, so that a handle wrapped without the flag
\* outlives its wrapper.
C5_FlagsDecideDestruction ==
    [][/\ lastOp'.op \in {"construct", "wrap", "wrapMoved"} =>
             inst'[lastOp'.a].flags = lastOp'.flags
       /\ lastOp'.op = "construct" => lastOp'.flags = {DestroyOnDestruction}
       /\ lastOp'.op = "destroy" =>
             LET self == inst[lastOp'.a]
                 owned == self.handle # 0 /\ DestroyOnDestruction \in self.flags
             IN /\ \A h \in Handles :
                      destroyCalls'[h] = destroyCalls[h] + (IF owned /\ h = self.handle THEN 1 ELSE 0)
                /\ \A h \in Handles :
                      native'[h] = IF owned /\ h = self.handle THEN "destroyed" ELSE native[h]]_vars

\* the wrapper of a handle wrapped without flags was destroyed, the handle lives
C5_Witness ==
    /\ lastOp.op = "destroy"
    /\ lastOp.h # 0
    /\ owner[lastOp.h] = "external"
    /\ native[lastOp.h] = "alive"

\* C6: release() returns the handle held and leaves a null handle; destroying
\* the Instance afterwards calls nothing, also with DestroyOnDestruction set:
\* the released handle is alive, is held by no Instance and can be wrapped.
C6_ReleaseHandsOut ==
    [][/\ lastOp'.op = "release" =>
             /\ lastOp'.h = inst[lastOp'.a].handle
             /\ inst'[lastOp'.a].handle = 0
             /\ DestructorDestroys(inst'[lastOp'.a]) = 0
             /\ lastOp'.h # 0 =>
                   /\ native'[lastOp'.h] = "alive"
                   /\ \A o \in live' : inst'[o].handle # lastOp'.h
       /\ (lastOp.op = "release" /\ lastOp'.op = "destroy" /\ lastOp'.a = lastOp.a) =>
             /\ destroyCalls' = destroyCalls
             /\ native' = native]_vars

\* an owning Instance has just released its handle
C6_Witness ==
    /\ lastOp.op = "release"
    /\ lastOp.h # 0
    /\ DestroyOnDestruction \in inst[lastOp.a].flags
    /\ native[lastOp.h] = "alive"

(***************************************************************************)
(* Properties of the request builder (specification SpecRequest)           *)
(***************************************************************************)
LayerArray(req) == IF req.state.set THEN req.state.layers ELSE EmptyArray("layers")
ExtensionArray(req) ==
    IF req.state.set THEN req.state.extensions ELSE EmptyArray("extensions")
StrsOf(views) == [i \in 1..Len(views) |-> views[i].str]

\* C7: no enabled layer name is on the disable-layers list and no enabled
\* extension name is on the disable-extensions list, whatever was proposed on
\* the command line or through the add calls; every proposed name that is not
\* on the list is enabled.
C7_BlacklistFilters ==
    LET enabledLayers == Range(EnabledLayerNames(info, mem))
        enabledExtensions == Range(EnabledExtensionNames(info, mem))
        noLayers == Range(added.args.disableLayers)
        noExtensions == Range(added.args.disableExtensions)
    IN /\ enabledLayers \cap noLayers = {}
       /\ enabledExtensions \cap noExtensions = {}
       /\ (added.proposedLayers \ noLayers) \subseteq enabledLayers
       /\ (added.proposedExtensions \ noExtensions) \subseteq enabledExtensions

\* of the names proposed for a kind, one was dropped and one was kept
C7_Witness ==
    /\ added.calls > 0
    /\ added.proposedExtensions \cap Range(added.args.disableExtensions) # {}
    /\ EnabledExtensionNames(info, mem) # <<>>
    /\ added.proposedLayers \cap Range(added.args.disableLayers) # {}
    /\ EnabledLayerNames(info, mem) # <<>>

\* C8: the enabled layer list, and the enabled extension list, is the
\* concatenation in call order of the candidates of every call that are not
\* blacklisted, duplicates included.
C8_AppendedInCallOrder ==
    /\ EnabledLayerNames(info, mem) = StrsOf(added.layers)
    /\ EnabledExtensionNames(info, mem) = StrsOf(added.extensions)
    /\ info.enabledLayerCount = Len(added.layers)
    /\ info.enabledExtensionCount = Len(added.extensions)

\* a name is enabled twice, after a second call
C8_Witness ==
    /\ added.calls >= 2
    /\ \E i, j \in 1..info.enabledLayerCount :
          i < j /\ EnabledLayerNames(info, mem)[i] = EnabledLayerNames(info, mem)[j]

\* the pointer p stored for the view v: it reads as v read when it was added,
\* and it is the caller's pointer exactly for a global null-terminated view
StoredAsAdded(p, v) ==
    /\ CStr(info, mem, p) = v.str
    /\ IF {"NullTerminated", "Global"} \subseteq v.flags
       THEN p = CallerPtr(v.data)
       ELSE p.kind \in {"owned", "appname"}

\* C9: every stored name (application name, layers, extensions) reads as the
\* string that was added, whatever the caller did to its buffer since and
\* however the arrays grew; a global null-terminated string is stored as the
\* caller's pointer, any other as a copy.
C9_StoredNamesKeepContents ==
    /\ Len(LayerArray(info).items) = Len(added.layers)
    /\ Len(ExtensionArray(info).items) = Len(added.extensions)
    /\ \A i \in 1..Len(added.layers) :
          StoredAsAdded(LayerArray(info).items[i], added.layers[i])
    /\ \A i \in 1..Len(added.extensions) :
          StoredAsAdded(ExtensionArray(info).items[i], added.extensions[i])
    /\ IF added.applicationName.str = <<>>
       THEN info.pApplicationName = NullPtr
       ELSE StoredAsAdded(info.pApplicationName, added.applicationName)

\* strings of the caller's local buffer were added, the array was reallocated
\* and the buffer was overwritten afterwards
C9_Witness ==
    /\ mem = Scribbled
    /\ \E i \in 1..Len(added.layers) :
          added.layers[i].data = Local /\ added.layers[i].str # Scribbled
    /\ LayerArray(info).gen >= 2
    /\ added.applicationName.data = Local /\ added.applicationName.str # Scribbled

CountAndPointerAgree ==
    /\ info.enabledLayerCount = Len(LayerArray(info).items)
    /\ info.ppEnabledLayerNames = Data(LayerArray(info))
    /\ info.enabledExtensionCount = Len(ExtensionArray(info).items)
    /\ info.ppEnabledExtensionNames = Data(ExtensionArray(info))

\* C10 as claimed: count and pointer designate the stored names, and a request
\* on which nothing was added exposes count 0 and a null pointer.
C10_NothingAddedIsNull ==
    /\ CountAndPointerAgree
    /\ added.layers = <<>> =>
          info.enabledLayerCount = 0 /\ info.ppEnabledLayerNames = NullData
    /\ added.extensions = <<>> =>
          info.enabledExtensionCount = 0 /\ info.ppEnabledExtensionNames = NullData

\* C10 amended: count and pointer designate the stored names; a request on
\* which no add call of the kind was made with a non-empty list exposes count
\* 0 and a null pointer; after calls whose candidates were all blacklisted
\* the count is 0.
C10_NoCallIsNull ==
    /\ CountAndPointerAgree
    /\ added.layerCalls = 0 =>
          info.enabledLayerCount = 0 /\ info.ppEnabledLayerNames = NullData
    /\ added.extensionCalls = 0 =>
          info.enabledExtensionCount = 0 /\ info.ppEnabledExtensionNames = NullData
    /\ added.layers = <<>> => info.enabledLayerCount = 0
    /\ added.extensions = <<>> => info.enabledExtensionCount = 0

\* every candidate of the add calls made was blacklisted: nothing is stored,
\* the pointer designates the storage that was reserved
C10_Witness ==
    /\ added.layerCalls > 0
    /\ added.layers = <<>>
    /\ info.enabledLayerCount = 0
    /\ info.ppEnabledLayerNames # NullData

\* C11: setApplicationInfo() with an empty name leaves a null application
\* name, also when a name was set before; with a non-empty name the
\* application name reads as that name; the application version is the
\* version given last, and a fresh request has a null application name.
C11_ApplicationInfoAsSetLast ==
    /\ IF added.applicationName.str = <<>>
       THEN info.pApplicationName = NullPtr
       ELSE /\ info.pApplicationName # NullPtr
            /\ CStr(info, mem, info.pApplicationName) = added.applicationName.str
    /\ info.applicationVersion = added.applicationVersion

\* a name was set, then an empty name with another version
C11_Witness ==
    /\ added.previousApplicationName.str # <<>>
    /\ added.applicationName.str = <<>>
    /\ added.applicationVersion = 1
    /\ info.pApplicationName = NullPtr

Section(what, names) ==
    IF names = <<>> THEN <<>> ELSE <<HeaderLine(what)>> \o Entries(names)

\* C12: an Instance created from a request built with log=verbose prints the
\* header "Enabled instance layers:" and one indented line per enabled layer
\* in list order if a layer is enabled, then the same for the extensions; a
\* category with nothing enabled prints nothing, and without log=verbose
\* nothing is printed.
C12_VerboseLogListsEnabled ==
    lastOp.op = "construct" =>
        LET args == lastOp.args
            enabledLayers == StrsOf(Kept(ArgvViews(args.enableLayers), args.disableLayers))
            enabledExtensions ==
                StrsOf(Kept(ArgvViews(args.enableExtensions \o lastOp.given),
                            args.disableExtensions))
        IN lastOp.out = IF args.log = "verbose"
                        THEN Section("layers:", enabledLayers) \o Section("extensions:", enabledExtensions)
                        ELSE <<>>

\* a verbose construction with a layer enabled and every proposed extension
\* disabled
C12_Witness ==
    /\ lastOp.op = "construct"
    /\ lastOp.args.log = "verbose"
    /\ lastOp.given # <<>>
    /\ lastOp.names = <<>>
    /\ Len(lastOp.out) = 1 + Len(lastOp.args.enableLayers)

(***************************************************************************)
(* Properties of the loader queries (specification SpecProperties)         *)
(***************************************************************************)
\* what version() is to report: Vk10 without vkEnumerateInstanceVersion
ReportedVersion(drv) == IF drv.enumerateInstanceVersion THEN drv.version ELSE Vk10

\* C13: over any sequence of version() and isVersionSupported() calls on one
\* InstanceProperties the loader's version query runs at most once, on the
\* first such call, and all version() calls return the same value.
C13_VersionQueriedOnce ==
    /\ queries.version <= 1
    /\ queries.versionCalls = 0 => queries.version = 0
    /\ (queries.versionCalls > 0 /\ driver.enumerateInstanceVersion) => queries.version = 1
    /\ Cardinality(queries.versions) <= 1

\* version() was called again after the version was populated
C13_Witness ==
    /\ lastCall.fn = "version"
    /\ queries.versionCalls >= 2
    /\ queries.version = 1
    /\ queries.versions = {driver.version}

\* C14: isVersionSupported(v) is true exactly when v is at most the version
\* that version() reports, which is Vk10 for a loader without the version
\* query and the loader's version otherwise; Vk10 is always supported.
C14_SupportedUpToReported ==
    /\ lastCall.fn = "version" => lastCall.result = ReportedVersion(driver)
    /\ lastCall.fn = "isVersionSupported" =>
          /\ lastCall.result = (lastCall.ver <= ReportedVersion(driver))
          /\ lastCall.ver = Vk10 => lastCall.result

\* a loader without the version query supports Vk10 and not Vk11
C14_Witness ==
    /\ lastCall.fn = "isVersionSupported"
    /\ ~driver.enumerateInstanceVersion
    /\ lastCall.ver = Vk11
    /\ ~lastCall.result
    /\ properties.version = Vk10

Sorted(names) == \A i \in 1..(Len(names) - 1) : ~StrLess(names[i + 1], names[i])
Occurrences(s, x) == Cardinality({i \in 1..Len(s) : s[i] = x})
IsPermutation(a, b) ==
    /\ Len(a) = Len(b)
    /\ \A x \in Range(a) \cup Range(b) : Occurrences(a, x) = Occurrences(b, x)

\* C15: once the layers are populated, layers() is sorted non-decreasing and
\* is a permutation of the names layer(0) .. layer(layerCount()-1), its size
\* is layerCount(), and the index-based accessors return the records in the
\* loader's order.
C15_SortedViewOfDriverOrder ==
    /\ properties.layers.populated =>
          /\ Sorted(properties.layers.names)
          /\ IsPermutation(properties.layers.names, NamesOf(properties.layers.records))
          /\ properties.layers.records = driver.layers
    /\ lastCall.fn = "layers" =>
          lastCall.result = properties.layers.names
             /\ Len(lastCall.result) = Len(driver.layers)
    /\ lastCall.fn = "layerCount" => lastCall.result = Len(driver.layers)
    /\ lastCall.id < Len(driver.layers) =>
          LET record == driver.layers[lastCall.id + 1]
          IN /\ lastCall.fn = "layer" => lastCall.result = record.layerName
             /\ lastCall.fn = "layerRevision" =>
                   lastCall.result = record.implementationVersion
             /\ lastCall.fn = "layerVersion" => lastCall.result = record.specVersion
             /\ lastCall.fn = "layerDescription" => lastCall.result = record.description

\* the loader's order is not the sorted order, layer(0) is the loader's first
C15_Witness ==
    /\ lastCall.fn = "layer"
    /\ lastCall.id = 0
    /\ Len(driver.layers) >= 2
    /\ lastCall.result = driver.layers[1].layerName
    /\ properties.layers.names[1] # lastCall.result

\* C16: isLayerSupported(name) is true exactly when name is, as a whole
\* string, the name of a layer the loader reported: false for a reported name
\* with a suffix, for the empty string and for any name without layers.
C16_SupportedIffReported ==
    lastCall.fn = "isLayerSupported" =>
        lastCall.result = (lastCall.name \in Range(NamesOf(driver.layers)))

\* a reported name with a suffix appended is not supported
C16_Witness ==
    /\ lastCall.fn = "isLayerSupported"
    /\ lastCall.name = LAYER_KHRONOS_validation3
    /\ LAYER_KHRONOS_validation \in Range(NamesOf(driver.layers))
    /\ ~lastCall.result

LayerAccessors == {"layer", "layerRevision", "layerVersion", "layerDescription"}
ExtensionAccessors == {"extension", "extensionRevision", "extensionLayer"}
QualifiedName(fn) ==
    CASE fn = "layer" -> "Vk::InstanceProperties::layer"
      [] fn = "layerRevision" -> "Vk::InstanceProperties::layerRevision"
      [] fn = "layerVersion" -> "Vk::InstanceProperties::layerVersion"
      [] fn = "layerDescription" -> "Vk::InstanceProperties::layerDescription"
      [] fn = "extension" -> "Vk::InstanceExtensionProperties::extension"
      [] fn = "extensionRevision" -> "Vk::InstanceExtensionProperties::extensionRevision"
      [] fn = "extensionLayer" -> "Vk::InstanceExtensionProperties::extensionLayer"
HasDefaultResult(call) ==
    IF call.fn \in {"layer", "layerDescription", "extension"}
    THEN call.result = <<>> ELSE call.result = 0

\* the sources an InstanceExtensionProperties queried and what they report
SourcesOf(self) == <<GlobalSource>> \o self.layers
ReportedBy(drv, self) ==
    UNION {{drv.extensions[SourcesOf(self)[i]][k].extensionName :
               k \in 1..Len(drv.extensions[SourcesOf(self)[i]])} :
           i \in 1..Len(SourcesOf(self))}
RecordsBefore(drv, self, i) ==
    LET Sum[k \in 0..Len(SourcesOf(self))] ==
            IF k = 0 THEN 0 ELSE Sum[k - 1] + Len(drv.extensions[SourcesOf(self)[k]])
    IN Sum[i]
RecordCount(fn) ==
    IF fn \in LayerAccessors THEN Len(driver.layers)
    ELSE RecordsBefore(driver, extensionProperties, Len(SourcesOf(extensionProperties)))

\* C17: an index-based accessor of InstanceProperties or
\* InstanceExtensionProperties called with id >= the record count writes
\* "<class>::<function>(): index <id> out of range for <count> entries",
\* returns a default value, reads no record and leaves the cache as it is
\* (or as populating it makes it), so that in-range calls keep returning the
\* loader's records; an in-range call writes nothing.
C17_OutOfRangeIsReported ==
    [][lastCall'.fn \in LayerAccessors \cup ExtensionAccessors =>
          IF lastCall'.id >= RecordCount(lastCall'.fn)
          THEN /\ lastCall'.out = <<AssertMessage(QualifiedName(lastCall'.fn), lastCall'.id,
                                                  RecordCount(lastCall'.fn))>>
               /\ HasDefaultResult(lastCall')
               /\ lastCall'.read = {}
               /\ extensionProperties' = extensionProperties
               /\ properties'.version = properties.version
               /\ properties.layers.populated => properties'.layers = properties.layers
               /\ properties'.layers.populated => properties'.layers.records = driver.layers
          ELSE /\ lastCall'.out = <<>>
               /\ lastCall'.read = {lastCall'.id}]_vars

\* an in-range call after an out-of-range one returns the loader's record
C17_Witness ==
    /\ queries.outOfRange >= 2
    /\ lastCall.fn = "layerRevision"
    /\ lastCall.id = 1
    /\ lastCall.out = <<>>
    /\ lastCall.result = driver.layers[2].implementationVersion
    /\ extensionProperties.constructed

StrictlySorted(names) == \A i \in 1..(Len(names) - 1) : StrLess(names[i], names[i + 1])

\* C18: for any list of queried layers, extensions() is strictly ascending by
\* name and its names are exactly the names reported by the global query and
\* by the listed layers; isExtensionSupported(name) is true exactly for these
\* names, false for a reported name with a suffix.
C18_UniqueSortedUnion ==
    extensionProperties.constructed =>
        /\ StrictlySorted(extensions(extensionProperties))
        /\ Range(extensions(extensionProperties)) = ReportedBy(driver, extensionProperties)
        /\ lastCall.fn = "extensions" => lastCall.result = extensions(extensionProperties)
        /\ lastCall.fn = "isExtensionSupported" =>
              lastCall.result = (lastCall.name \in ReportedBy(driver, extensionProperties))

\* a name offered by two sources, a reported name with a suffix not supported
C18_Witness ==
    /\ extensionProperties.constructed
    /\ Len(extensionProperties.extensions) > extensionProperties.uniqueExtensionCount
    /\ lastCall.fn = "isExtensionSupported"
    /\ lastCall.name = KHR_surface_hello
    /\ KHR_surface \in ReportedBy(driver, extensionProperties)
    /\ ~lastCall.result

\* C19: extensionCount() is the sum of the record counts of the global query
\* and of the listed layers, duplicates included; the records are stored
\* source by source in input order; extensionLayer(id) is 0 for a record of
\* the global query and i for one of the i-th layer, so it is non-decreasing
\* in id, and extension(id) / extensionRevision(id) are of that same record.
C19_RecordsBySource ==
    extensionProperties.constructed =>
        LET self == extensionProperties
            sources == SourcesOf(self)
            total == RecordsBefore(driver, self, Len(sources))
        IN /\ extensionCount(self) = total
           /\ Len(self.extensionLayers) = total
           /\ extensionCount(self) >= Len(extensions(self))
           /\ \A i \in 1..Len(sources) :
                 \A k \in 1..Len(driver.extensions[sources[i]]) :
                    LET id == RecordsBefore(driver, self, i - 1) + k - 1
                    IN /\ extensionLayer(self, id).result = i - 1
                       /\ extension(self, id).result =
                             driver.extensions[sources[i]][k].extensionName
                       /\ extensionRevision(self, id).result =
                             driver.extensions[sources[i]][k].specVersion
           /\ \A a, b \in 1..total : a <= b => self.extensionLayers[a] <= self.extensionLayers[b]
           /\ lastCall.fn = "extensionCount" => lastCall.result = total
           /\ (lastCall.fn \in ExtensionAccessors /\ lastCall.id < total) =>
                 lastCall.result =
                    (CASE lastCall.fn = "extension" -> self.extensions[lastCall.id + 1].extensionName
                       [] lastCall.fn = "extensionRevision" -> self.extensions[lastCall.id + 1].specVersion
                       [] lastCall.fn = "extensionLayer" -> self.extensionLayers[lastCall.id + 1])

\* the last record comes from the second listed layer, a name occurs twice
C19_Witness ==
    /\ extensionProperties.constructed
    /\ lastCall.fn = "extensionLayer"
    /\ lastCall.id = Len(extensionProperties.extensions) - 1
    /\ lastCall.result = 2
    /\ Len(extensionProperties.extensions) > extensionProperties.uniqueExtensionCount

\* C20: extensionRevision(name) is 0 for every name no queried source
\* reported, also for a name that sorts after every reported name, for a
\* cache without duplicates and for an empty cache, and no position at or
\* past the end of the unique sorted view is read.
C20_UnknownNameIsZero ==
    (lastCall.fn = "extensionRevisionNamed"
        /\ lastCall.name \notin ReportedBy(driver, extensionProperties)) =>
        /\ lastCall.result = 0
        /\ lastCall.found <= extensionProperties.uniqueExtensionCount

\* the record with the smallest id that carries the name
FirstRecordNamed(self, name) ==
    CHOOSE id \in 1..Len(self.extensions) :
        /\ self.extensions[id].extensionName = name
        /\ \A k \in 1..(id - 1) : self.extensions[k].extensionName # name

\* C21: for a name reported by more than one source with different
\* revisions, extensionRevision(name) is the revision of the first source
\* offering it in input order, i.e. of the record with the smallest id
\* carrying that name.
C21_RevisionOfFirstSource ==
    (lastCall.fn = "extensionRevisionNamed"
        /\ lastCall.name \in ReportedBy(driver, extensionProperties)) =>
        lastCall.result =
            extensionProperties.extensions[
                FirstRecordNamed(extensionProperties, lastCall.name)].specVersion

(***************************************************************************)
(* Properties of the extension catalog (specification SpecProperties)      *)
(***************************************************************************)
\* the entries of all version keys, one key after the other
AllKnown ==
    InstanceExtension_extensions(VersionNone) \o InstanceExtension_extensions(Vk10)
        \o InstanceExtension_extensions(Vk11) \o InstanceExtension_extensions(Vk12)

\* C22: for every version key (None, Vk10, Vk11, Vk12) the entries of
\* InstanceExtension::extensions(version) are strictly ascending by name,
\* each entry's coreVersion is that key and is >= its requiredVersion, every
\* index is below InstanceExtensionCount, and no index and no name occurs
\* twice across all keys together.
C22_CatalogSortedAndUnique ==
    /\ \A key \in VersionKeys :
          LET known == InstanceExtension_extensions(key)
          IN /\ StrictlySorted(Strings(known))
             /\ \A i \in 1..Len(known) :
                   /\ known[i].coreVersion = key
                   /\ known[i].coreVersion >= known[i].requiredVersion
                   /\ known[i].index < InstanceExtensionCount
    /\ \A i, j \in 1..Len(AllKnown) :
          i # j => /\ AllKnown[i].index # AllKnown[j].index
                   /\ AllKnown[i].string # AllKnown[j].string
    /\ lastCall.fn = "InstanceExtension::extensions" =>
          lastCall.result = InstanceExtension_extensions(lastCall.ver)

\* the non-empty list of a core version was handed out
C22_Witness ==
    /\ lastCall.fn = "InstanceExtension::extensions"
    /\ lastCall.ver = Vk11
    /\ Len(lastCall.result) = 5
    /\ lastCall.result[5].string = KHR_get_physical_device_properties2

KnownIndices == {AllKnown[i].index : i \in 1..Len(AllKnown)}

\* C23 as stated: the indices of all catalog entries are exactly {0 .. N-1}
\* for N = InstanceExtensionCount, so that every bit of the bitset is the
\* bit of exactly one catalog extension.
C23_IndicesCoverBitset ==
    lastCall.fn = "InstanceExtension::extensions" =>
        KnownIndices = 0..(InstanceExtensionCount - 1)

\* C23: the catalog lists its extensions under distinct names and has fewer
\* entries than the bitset has bits, so the indices of its entries are fewer
\* than InstanceExtensionCount values and do not cover {0 .. N-1}: every
\* catalog extension has one bit, some bits belong to no catalog extension.
C23_FewerEntriesThanBits ==
    /\ Cardinality(Range(Strings(AllKnown))) = Len(AllKnown)
    /\ Len(AllKnown) < InstanceExtensionCount
    /\ Cardinality(KnownIndices) <= Len(AllKnown)
    /\ \E bit \in 0..(InstanceExtensionCount - 1) : bit \notin KnownIndices
    /\ lastCall.fn = "InstanceExtension::extensions" =>
          Len(lastCall.result) < InstanceExtensionCount

\* the vendor list was handed out: three entries for sixteen bits
C23_Witness ==
    /\ lastCall.fn = "InstanceExtension::extensions"
    /\ lastCall.ver = VersionNone
    /\ Len(lastCall.result) = 3
    /\ Len(AllKnown) = 8

(***************************************************************************)
(* Properties of the global function pointers (specification SpecGlobal)   *)
(***************************************************************************)
\* C24: the global instance-level function pointers change only in
\* populateGlobalFunctionPointers(): constructing, wrapping, moving,
\* releasing or destroying an Instance leaves them as they are, and right
\* after o.populateGlobalFunctionPointers() they are o's own table, so they
\* are those of the last caller.
C24_GlobalPointersOfLastCaller ==
    [][IF lastOp'.op = "populateGlobalFunctionPointers"
       THEN /\ flextVkInstance' = inst[lastOp'.a].functionPointers
            /\ inst' = inst
       ELSE flextVkInstance' = flextVkInstance]_vars

\* two instances populated the global pointers one after the other
C24_Witness ==
    /\ lastOp.op = "populateGlobalFunctionPointers"
    /\ lastOp.a = "b"
    /\ inst["a"].functionPointers # 0
    /\ inst["b"].functionPointers # 0
    /\ inst["a"].functionPointers # inst["b"].functionPointers
    /\ flextVkInstance = inst["b"].functionPointers
    /\ native[inst["a"].handle] = "alive"

(***************************************************************************)
(* Further properties of Instance objects (specification Spec)             *)
(***************************************************************************)
\* C25: after release() the state of the Instance (handle, handle flags,
\* function-pointer table, enabled-extension status) is that of a moved-from
\* Instance, which in turn is that of an Instance constructed with NoCreate.
C25_ReleasedIsMovedFromIsNoCreate ==
    [][/\ lastOp'.op = "release" =>
             inst'[lastOp'.a] = MoveConstruct(inst[lastOp'.a]).other
       /\ lastOp'.op = "moveConstruct" => inst'[lastOp'.a] = NoCreate]_vars

(***************************************************************************)
(* Properties of creation from a request (specification SpecCreate)        *)
(***************************************************************************)
\* a step that ran Instance(const InstanceCreateInfo&)
IsConstruction(before, after) == after.op \in {"construct", "abort"} /\ after # before

C27_DumpOnlyOnSuccess == lastOp.op = "abort" => lastOp.out = <<>>

\* C27: with log=verbose the dump of the enabled layers and extensions of
\* the request is printed before the native creation is attempted, so it is
\* the same whether the creation then succeeds or fails; without
\* log=verbose nothing is printed.
C27_DumpPrecedesCreation ==
    [][IsConstruction(lastOp, lastOp') =>
          lastOp'.out = IF added.args.log = "verbose"
                        THEN Section("layers:", StrsOf(added.layers))
                                \o Section("extensions:", StrsOf(added.extensions))
                        ELSE <<>>]_vars

\* a failed creation that has printed both sections
C27_Witness ==
    /\ lastOp.op = "abort"
    /\ lastOp.a \notin live
    /\ Len(lastOp.out) = 2 + Len(lastOp.layers) + Len(lastOp.names)
    /\ lastOp.layers # <<>>
    /\ lastOp.names # <<>>

(***************************************************************************)
(* Further properties of the loader queries (specification SpecProperties) *)
(***************************************************************************)
LayerFunctions == {"layers", "isLayerSupported", "layerCount"} \cup LayerAccessors

\* the calls of vkEnumerateInstanceLayerProperties() one enumeration makes
EnumerationQueries(drv) == IF Len(drv.layers) = 0 THEN 1 ELSE 2

Failed(calls) == \E i \in 1..Len(calls) : calls[i].result # "Success"

\* the records counted (pass "count") or obtained (pass "fill") by the calls
RecordsOf(calls, pass) ==
    LET Sum[k \in 0..Len(calls)] ==
            IF k = 0 THEN 0
            ELSE Sum[k - 1] + (IF calls[k].pass = pass THEN calls[k].count ELSE 0)
    IN Sum[Len(calls)]

\* the fill pass ran and obtained another number of records than counted
Mismatch(calls) ==
    /\ \E i \in 1..Len(calls) : calls[i].pass = "fill"
    /\ RecordsOf(calls, "count") # RecordsOf(calls, "fill")

\* C29: a loader call that fails (version query, layer enumeration,
\* extension enumeration, instance creation) and a fill pass that obtains
\* another number of records than the count pass counted end the process:
\* nothing runs afterwards (no retry), and no InstanceProperties,
\* InstanceExtensionProperties or Instance is left partly populated or live.
C29_FailureIsFatal ==
    /\ [][Running]_vars
    /\ []((Failed(lastCall.out) \/ Mismatch(lastCall.out)) => lastCall.fn = "abort")
    /\ [](lastOp.result # "Success" => lastOp.op = "abort" /\ lastOp.a \notin live)
    /\ [](properties.version \in {NoVersion, ReportedVersion(driver)})
    /\ [](properties.layers.populated => properties.layers.records = driver.layers)
    /\ [](IF extensionProperties.constructed
          THEN /\ Len(extensionProperties.extensionLayers)
                     = Len(extensionProperties.extensions)
               /\ Len(extensionProperties.extensionNames)
                     = Len(extensionProperties.extensions)
               /\ extensionProperties.uniqueExtensionCount
                     <= Len(extensionProperties.extensions)
               /\ Len(extensionProperties.extensions)
                     = RecordCount("extension")
          ELSE extensionProperties = NoExtensionProperties)
    /\ [][lastOp'.result # "Success" =>
             live' = live /\ inst' = inst /\ native' = native /\ owner' = owner]_vars
    /\ [](\A o \in live : inst[o].handle # 0 => native[inst[o].handle] = "alive")

\* the extension enumeration ended the process although every call returned
\* success: the fill pass obtained fewer records than were counted
C29_Witness ==
    /\ lastCall.fn = "abort"
    /\ ~Failed(lastCall.out)
    /\ Mismatch(lastCall.out)
    /\ \E i \in 1..Len(lastCall.out) :
          lastCall.out[i].call = "vkEnumerateInstanceExtensionProperties"
    /\ ~extensionProperties.constructed

\* the members an InstanceProperties populates lazily
Members == {"version", "layers"}

\* loader queries made for a member by all threads together
TotalQueried(member) ==
    LET Sum[S \in SUBSET Threads] ==
            IF S = {} THEN 0
            ELSE LET t == CHOOSE u \in S : TRUE
                 IN threads[t].queried[member] + Sum[S \ {t}]
    IN Sum[Threads]

\* the threads that ran the population of a member to its end
Populators(member) == {t \in Threads : threads[t].populated[member] >= 1}

\* the loader queries one population of a member makes
QueriesOf(drv, member) ==
    IF member = "version" THEN (IF drv.enumerateInstanceVersion THEN 1 ELSE 0)
    ELSE EnumerationQueries(drv)

\* C30: the lazy population of an InstanceProperties is check-then-populate
\* without synchronisation. A thread runs the population exactly when its own
\* check saw the member unpopulated, so it populates a member at most once,
\* but every thread whose check came before another thread's store populates
\* too: the loader is queried once more for each of them, and a store on a
\* populated member overwrites what another thread stored.
C30_CheckThenPopulate ==
    /\ [][\A t \in Threads : \A m \in Members :
             threads'[t].populated[m] > threads[t].populated[m]
                 => m \in threads[t].seen]_vars
    /\ [](\A t \in Threads : \A m \in Members : threads[t].populated[m] <= 1)
    /\ [](\A t \in Threads :
             /\ threads[t].pc = "populateVersion" => "version" \in threads[t].seen
             /\ threads[t].pc \in {"countLayers", "allocateLayers", "fillLayers"}
                   => "layers" \in threads[t].seen)
    /\ [](\A m \in Members :
             TotalQueried(m) >= Cardinality(Populators(m)) * QueriesOf(driver, m))
    /\ [](\A t \in Threads : \A m \in threads[t].overwrote :
             \E u \in Threads \ {t} :
                 threads[u].populated[m] >= 1 \/ threads[u].pc = "fillLayers")

\* both threads saw version and layers unpopulated and both populated them:
\* the loader was asked for the version twice and for the layers four times,
\* and the second thread's stores replaced the first one's
C30_Witness ==
    /\ driver.enumerateInstanceVersion
    /\ driver.layers # <<>>
    /\ \A t \in Threads : threads[t].pc = "idle"
    /\ Populators("version") = Threads
    /\ Populators("layers") = Threads
    /\ TotalQueried("version") > 1
    /\ TotalQueried("layers") = Cardinality(Threads) * EnumerationQueries(driver)
    /\ \E t \in Threads : threads[t].overwrote = Members
    /\ properties.version = driver.version

\* C31: a move keeps the enabled-extension status with the handle: after
\* Instance b{std::move(a)} or b = std::move(a), b.isExtensionEnabled(E) is
\* what a.isExtensionEnabled(E) was before the move, for every extension E of
\* the catalog.
C31_MoveKeepsExtensionStatus ==
    [][lastOp'.op \in {"moveConstruct", "moveAssign"} =>
          \A E \in Range(AllKnown) :
              isExtensionEnabled(inst'[lastOp'.b], E)
                  = isExtensionEnabled(inst[lastOp'.a], E)]_vars

\* the indices of list l that the names found inside the list stand for
MarkedInside(l, names) ==
    {KnownLists[l][k].index : k \in {j \in 1..Len(KnownLists[l]) :
                                        KnownLists[l][j].string \in Range(names)}}

\* C32: while marking the enabled extensions, initialize() reads a catalog
\* list only at positions inside the list: for an enabled name that sorts
\* after every name of the list the result of the lower-bound search is not
\* dereferenced, and the bits set for the list are those of the names found
\* in it.
C32_LookupStaysInsideList ==
    lastOp.op \in {"construct", "wrap"} =>
        /\ ~lastOp.oob
        /\ \A l \in 1..Len(KnownLists) :
              ~ReadsPastTheEndOf(l, lastOp.names)
              /\ inst[lastOp.a].extensionStatus \cap {e.index : e \in Range(KnownLists[l])}
                    = MarkedInside(l, lastOp.names)

\* C33: in every state reached through construction, wrap, move
\* construction, move assignment and release, an Instance with a non-null
\* handle holds the function pointers that were loaded for that handle: the
\* DestroyInstance pointer the destructor calls is not null and is not that
\* of another instance. An Instance with null function pointers has a null
\* handle.
C33_PointersBelongToHandle ==
    /\ \A o \in live :
          /\ inst[o].handle # 0 => inst[o].functionPointers = inst[o].handle
          /\ inst[o].functionPointers = 0 => inst[o].handle = 0
    /\ \A o \in Objs \ live : inst[o] = NoCreate

\* b was move-assigned the Instance a had constructed, while a took over the
\* wrapped handle of b: each holds the pointers of the handle it now has
C33_Witness ==
    /\ lastOp.op = "moveAssign"
    /\ {"a", "b"} \subseteq live
    /\ inst["a"].handle # 0 /\ inst["b"].handle # 0
    /\ inst["a"].handle # inst["b"].handle
    /\ inst["b"].functionPointers = inst["b"].handle
    /\ inst["a"].functionPointers = inst["a"].handle
    /\ inst["a"].flags # inst["b"].flags

\* what a request shows of its layers, its extensions and its application
LayerList(req, m) ==
    <<req.enabledLayerCount, req.ppEnabledLayerNames, EnabledLayerNames(req, m)>>
ExtensionList(req, m) ==
    <<req.enabledExtensionCount, req.ppEnabledExtensionNames,
      EnabledExtensionNames(req, m)>>
ApplicationInfo(req, m) ==
    <<req.pApplicationName, CStr(req, m, req.pApplicationName), req.applicationVersion>>

\* the blacklists and the verbose-log setting; a request without State has
\* empty blacklists and no verbose log
FixedAtConstruction(req) ==
    IF req.state.set
    THEN <<req.state.disabledLayers, req.state.disabledExtensions, req.state.verboseLog>>
    ELSE <<<<>>, <<>>, FALSE>>

\* the step is a call of the given builder function on the request
IsAddEnabledLayers ==
    added'.calls = added.calls + 1
        /\ \E views \in LayerArgs(mem) : info' = addEnabledLayers(info, views)
IsAddEnabledExtensions ==
    added'.calls = added.calls + 1
        /\ \/ \E views \in ExtensionArgs(mem) : info' = addEnabledExtensions(info, views)
           \/ \E known \in KnownArgs : info' = addEnabledInstanceExtensions(info, known)
IsSetApplicationInfo ==
    added'.calls = added.calls + 1
        /\ \E name \in ApplicationNames(mem), v \in Versions :
              info' = setApplicationInfo(info, name, v)

\* C34: the builder functions are independent: addEnabledLayers() leaves
\* the extension list and the application info as they were,
\* addEnabledExtensions() the layer list and the application info,
\* setApplicationInfo() both lists, and none changes the blacklists or the
\* verbose-log setting fixed by the constructor.
C34_BuildersAreIndependent ==
    [][/\ IsAddEnabledLayers =>
             /\ ExtensionList(info', mem') = ExtensionList(info, mem)
             /\ ApplicationInfo(info', mem') = ApplicationInfo(info, mem)
       /\ IsAddEnabledExtensions =>
             /\ LayerList(info', mem') = LayerList(info, mem)
             /\ ApplicationInfo(info', mem') = ApplicationInfo(info, mem)
       /\ IsSetApplicationInfo =>
             /\ LayerList(info', mem') = LayerList(info, mem)
             /\ ExtensionList(info', mem') = ExtensionList(info, mem)
       /\ added'.calls > added.calls =>
             FixedAtConstruction(info') = FixedAtConstruction(info)]_vars

\* layers, then extensions were added to a request made with a verbose log
\* and both blacklists: both lists are there, the second call having had to
\* keep a copy of a name next to the copies made by the first
C34_Witness ==
    /\ added.calls = 2
    /\ added.layerCalls = 1 /\ added.extensionCalls = 1
    /\ info.state.set /\ info.state.verboseLog
    /\ info.state.disabledLayers # <<>> /\ info.state.disabledExtensions # <<>>
    /\ info.enabledLayerCount > 0 /\ info.enabledExtensionCount > 0
    /\ EnabledLayerNames(info, mem) # Dangling
    /\ EnabledExtensionNames(info, mem) # Dangling
    /\ Len(info.state.ownedStrings) >= 2

\* s is what t begins with
IsPrefix(s, t) == Len(s) <= Len(t) /\ SubSeq(t, 1, Len(s)) = s

\* C35: addEnabledLayers() and addEnabledExtensions() only append: the names
\* the request showed before a call are, in the same order, the beginning of
\* the names it shows after the call, and the counts never decrease; also
\* for a request constructed from a VkInstanceCreateInfo that lists layers
\* or extensions already.
C35_AddOnlyAppends ==
    [][IsAddEnabledLayers \/ IsAddEnabledExtensions =>
          /\ IsPrefix(EnabledLayerNames(info, mem), EnabledLayerNames(info', mem'))
          /\ IsPrefix(EnabledExtensionNames(info, mem),
                      EnabledExtensionNames(info', mem'))
          /\ info'.enabledLayerCount >= info.enabledLayerCount
          /\ info'.enabledExtensionCount >= info.enabledExtensionCount]_vars

====
